---- MODULE Spec2Model ----
(***************************************************************************)
(* drf-spectacular: AutoSchema.get_operation and the component registry.   *)
(* Python dicts are modelled as functions with string domains, so that     *)
(* {**a, **b}, d.get(k), `k in d` and `del d[k]` keep their meaning.       *)
(* Python None is the string "None".                                        *)
(***************************************************************************)
EXTENDS Integers, Sequences, FiniteSets, TLC

VARIABLES settings,   \* spectacular_settings of the run
          registry,   \* ComponentRegistry: <<type, name>> -> ResolvedComponent
          route,      \* the RouteDescriptor of the last get_operation call
          operation,  \* the operation that call returned
          doc_refs,   \* every $ref emitted into the document's paths so far
          log,        \* call log of the last get_operation: _map_serializer calls, warnings
          nops        \* number of get_operation calls made

vars == <<settings, registry, route, operation, doc_refs, log, nops>>

None == "None"

\* ----------------------------------------------------------------- bounds
MaxOps == 2

\* ------------------------------------------------------------ dict helpers
Has(d, k) == k \in DOMAIN d

Get(d, k, default) == IF k \in DOMAIN d THEN d[k] ELSE default

\* {**a, **b}: the keys of b win
Merge(a, b) == b @@ a

\* del d[k]
Del(d, k) == [x \in (DOMAIN d) \ {k} |-> d[x]]

EmptyDict == [x \in {} |-> None]

Range(s) == {s[i] : i \in DOMAIN s}

RECURSIVE Concat(_)
\* ''.join(parts)
Concat(parts) ==
  IF parts = <<>> THEN "" ELSE Head(parts) \o Concat(Tail(parts))

\* A Python int, which has no width: hi * 65536 + lo with lo in 0..65535, so
\* that bounds beyond 32 bits can be written and compared.
BigInt(hi, lo) == [hi |-> hi, lo |-> lo]

\* the Python int of a number that fits 32 bits
ToBigInt(n) == BigInt((n - (n % 65536)) \div 65536, n % 65536)

\* a > b on Python ints
GreaterThan(a, b) == a.hi > b.hi \/ (a.hi = b.hi /\ a.lo > b.lo)

\* ------------------------------------------------------ plumbing: schemas
\* build_basic_type(OpenApiTypes.X): the fixed basic-type table
build_basic_type(t) ==
  CASE t = "INT"    -> [type |-> "integer"]
    [] t = "STR"    -> [type |-> "string"]
    [] t = "FLOAT"  -> [type |-> "number", format |-> "float"]
    [] t = "BOOL"   -> [type |-> "boolean"]
    [] t = "UUID"   -> [type |-> "string", format |-> "uuid"]
    [] t = "URI"    -> [type |-> "string", format |-> "uri"]
    [] t = "OBJECT" -> [type |-> "object", additionalProperties |-> EmptyDict]
    [] t = "DECIMAL" -> [type |-> "number", format |-> "double"]
    [] OTHER        -> [type |-> "string"]

BasicTypes == {"INT", "STR", "FLOAT", "BOOL", "UUID", "URI", "OBJECT", "DECIMAL"}

build_array_type(schema) == [type |-> "array", items |-> schema]

\* build_object_type(properties, required): empty parts are left out
build_object_type(properties, required) ==
  Merge(Merge([type |-> "object"],
              IF DOMAIN properties # {} THEN [properties |-> properties] ELSE EmptyDict),
        IF required # {} THEN [required |-> required] ELSE EmptyDict)

\* append_meta(schema, meta) = {**schema, **meta}
append_meta(schema, meta) == Merge(schema, meta)

\* safe_ref: a $ref with sibling keys is wrapped into allOf
safe_ref(schema) ==
  IF Has(schema, "ref") /\ DOMAIN schema # {"ref"}
  THEN Merge([allOf |-> <<[ref |-> schema.ref]>>], Del(schema, "ref"))
  ELSE schema

\* ------------------------------------------- plumbing: ResolvedComponent
SCHEMA == "schemas"
SECURITY_SCHEMA == "securitySchemes"

NoSchema == [none |-> TRUE]

ResolvedComponent(name, type, object, schema) ==
  [name |-> name, type |-> type, object |-> object, schema |-> schema]

\* ResolvedComponent(None, None): the falsy "no body" sentinel
Sentinel == ResolvedComponent(None, None, None, NoSchema)

\* bool(component)
Truthy(component) ==
  component.name # None /\ component.type # None /\ component.object # None

\* component.ref
Ref(component) ==
  [ref |-> "#/components/" \o component.type \o "/" \o component.name]

\* ------------------------------------------- plumbing: ComponentRegistry
\* The registry is owned by the run and deduplicates by identity: the record
\* (serializer class) together with the variant name computed for it.  A new
\* identity is stored under its computed name, renamed with a sequential
\* suffix when another identity already holds that name.  register() renames
\* the component object it is given, so the caller sees the bound name.
Identity(component) == <<component.type, component.object, component.name>>

Key(component) == <<component.type, component.name>>

\* component in registry
RegistryContains(reg, component) ==
  \E k \in DOMAIN reg : reg[k].identity = Identity(component)

\* registry[component]
RegistryGet(reg, component) ==
  reg[CHOOSE k \in DOMAIN reg : reg[k].identity = Identity(component)].component

FreeName(reg, type, name) ==
  IF <<type, name>> \notin DOMAIN reg THEN name
  ELSE LET Cand(k) == name \o "_" \o ToString(k)
       IN  Cand(CHOOSE k \in 2..(Cardinality(DOMAIN reg) + 2) :
                  /\ <<type, Cand(k)>> \notin DOMAIN reg
                  /\ \A j \in 2..(k - 1) : <<type, Cand(j)>> \in DOMAIN reg)

\* registry.register(component)
RegistryRegister(reg, component) ==
  IF RegistryContains(reg, component) THEN reg
  ELSE LET Bind(bound) ==
             (<<component.type, bound>> :>
                 [component |-> [component EXCEPT !.name = bound],
                  identity  |-> Identity(component)]) @@ reg
       IN  Bind(FreeName(reg, component.type, component.name))

\* del registry[component]
RegistryDelete(reg, component) ==
  [k \in (DOMAIN reg) \ {Key(component)} |-> reg[k]]

\* component.schema = schema, seen through the registry that holds the object
RegistrySetSchema(reg, component, schema) ==
  IF Key(component) \in DOMAIN reg
  THEN [reg EXCEPT ![Key(component)].component.schema = schema]
  ELSE reg

EmptyRegistry == [k \in {} |-> None]

\* registry.build(): the components section of the final document
Components(reg, type) ==
  [n \in {k[2] : k \in {q \in DOMAIN reg : q[1] = type}} |->
     reg[<<type, n>>].component.schema]

\* ------------------------------------------------- records under analysis
\* FieldDescriptor: a dict; absent keys take the DRF defaults below.
Field(name, kind) == [field_name |-> name, kind |-> kind]

ReadOnly(f)  == Merge(f, [read_only |-> TRUE])
WriteOnly(f) == Merge(f, [write_only |-> TRUE, required |-> TRUE])
Required(f)  == Merge(f, [required |-> TRUE])
Nested(name, cls)  == [field_name |-> name, kind |-> "Serializer", cls |-> cls]
NestedMany(name, cls) == [field_name |-> name, kind |-> "ListSerializer", cls |-> cls]
\* @extend_schema_field(OpenApiTypes.X) on the field's class
OverrideBasic(f, t) == Merge(f, [override |-> [basic |-> t]])
\* @extend_schema_field(SomeField()) on the field's class
OverrideField(f, g) == Merge(f, [override |-> [field |-> g]])

\* RecordDescriptor: class name (split before a trailing "Serializer"),
\* Meta.ref_name, the name a matching OpenApiSerializerExtension declares,
\* and the declared fields in order.
Record(name, fields) ==
  [name |-> name, fields |-> fields]

\* class Meta: ref_name = ...
RefName(rec, ref_name) == Merge(rec, [ref_name |-> ref_name])
\* an OpenApiSerializerExtension matching the class, whose get_name() is ext_name
ExtName(rec, ext_name) == Merge(rec, [ext_name |-> ext_name])

Serializers ==
  [ X       |-> Record(<<"X", "Serializer">>,
                  << Required(Field("x", "UUIDField")) >>),
    LibX    |-> Record(<<"X", "Serializer">>,
                  << Required(Field("x", "IntegerField")) >>),
    Split   |-> Record(<<"Split", "Serializer">>,
                  << ReadOnly(Field("ro", "IntegerField")),
                     Required(Field("rw", "IntegerField")),
                     WriteOnly(Field("wo", "IntegerField")),
                     Field("opt", "CharField"),
                     Field("hid", "HiddenField") >>),
    Empty   |-> Record(<<"Empty", "Serializer">>, << >>),
    RoOnly  |-> Record(<<"RoOnly", "Serializer">>,
                  << ReadOnly(Field("id", "IntegerField")) >>),
    Parent  |-> Record(<<"Parent">>,
                  << Required(Field("name", "CharField")),
                     Required(Nested("child", "RoOnly")),
                     NestedMany("items", "X") >>),
    A       |-> Record(<<"A", "Serializer">>,
                  << ReadOnly(Nested("b", "B")) >>),
    B       |-> Record(<<"B", "Serializer">>,
                  << Required(Nested("a", "A")),
                     Required(Field("x", "IntegerField")) >>),
    Ovr     |-> Record(<<"Ovr", "Serializer">>,
                  << OverrideBasic(ReadOnly(Field("stamp", "CustomField")), "STR"),
                     OverrideField(WriteOnly(Field("secret", "CustomField")),
                                   Field("secret", "CharField")),
                     Required(Field("rw", "IntegerField")) >>),
    Owned   |-> RefName(Record(<<"X", "Serializer">>,
                          << Required(Field("x", "IntegerField")) >>),
                        <<"Y">>),
    Lib     |-> ExtName(Record(<<"Lib", "Serializer">>,
                          << Required(Field("x", "IntegerField")) >>),
                        <<"Vendor">>),
    Both    |-> ExtName(RefName(Record(<<"Both", "Serializer">>,
                                  << Required(Field("x", "IntegerField")) >>),
                                <<"Local">>),
                        <<"Ext", "Serializer">>),
    \* IntegerField(max_value=..., min_value=...) around the 32-bit limits
    Nums    |-> Record(<<"Nums", "Serializer">>,
                  << Merge(Field("max32", "IntegerField"),
                           [max_value |-> BigInt(32767, 65535)]),
                     Merge(Field("over", "IntegerField"),
                           [max_value |-> BigInt(32768, 0)]),
                     Merge(Field("min32", "IntegerField"),
                           [min_value |-> BigInt(-32768, 0)]),
                     Merge(Field("under", "IntegerField"),
                           [min_value |-> BigInt(-32769, 65535)]),
                     Merge(Field("high", "IntegerField"),
                           [min_value |-> BigInt(32768, 0),
                            max_value |-> BigInt(32768, 1)]),
                     Merge(Field("small", "IntegerField"),
                           [min_value |-> BigInt(-1, 65535),
                            max_value |-> BigInt(0, 10)]) >>),
    \* DecimalField(max_digits=..., decimal_places=...), and the fields a
    \* ModelSerializer builds with a DecimalValidator or limit validators
    Dec     |-> Record(<<"Dec", "Serializer">>,
                  << Merge(Field("price", "DecimalField"),
                           [max_digits |-> 5, decimal_places |-> 2]),
                     Merge(Field("count", "DecimalField"),
                           [max_digits |-> 3, decimal_places |-> 0,
                            coerce_to_string |-> FALSE]),
                     Merge(Field("ratio", "DecimalField"),
                           [max_digits |-> 2, decimal_places |-> 2]),
                     Field("free", "DecimalField"),
                     Merge(Field("amount", "DecimalField"),
                           [max_digits |-> 6, decimal_places |-> 3,
                            validators |-> << [kind |-> "DecimalValidator",
                                               max_digits |-> 6,
                                               decimal_places |-> 3] >>]),
                     Merge(Field("units", "IntegerField"),
                           [validators |-> << [kind |-> "DecimalValidator",
                                               max_digits |-> 4,
                                               decimal_places |-> 0] >>]),
                     Merge(Field("tenth", "FloatField"),
                           [validators |-> << [kind |-> "DecimalValidator",
                                               max_digits |-> 3,
                                               decimal_places |-> 1] >>]),
                     Merge(Field("capped", "IntegerField"),
                           [validators |-> << [kind |-> "MinValueValidator",
                                               limit_value |-> BigInt(0, 1)],
                                              [kind |-> "MaxValueValidator",
                                               limit_value |-> BigInt(0, 10)] >>]) >>),
    \* one record nested under two fields
    Twice   |-> Record(<<"Twice", "Serializer">>,
                  << Nested("first", "Empty"),
                     Nested("second", "Empty"),
                     Nested("third", "X"),
                     Nested("fourth", "X"),
                     Required(Field("x", "IntegerField")) >>) ]

SerializerClasses == DOMAIN Serializers

\* the records that only the runs over field mapping use
FieldClasses == {"Dec", "Twice"}

\* a serializer instance made from its class: force_instance(cls)
Instance(cls) == [field_name |-> "", kind |-> "Serializer", cls |-> cls]

\* XSerializer(many=True): a ListSerializer around a child instance
ManyInstance(cls) == [field_name |-> "", kind |-> "ListSerializer", cls |-> cls]

\* ListSerializer.child: many_init hands read_only/write_only on to the child
Child(field) == [field EXCEPT !.kind = "Serializer"]

IsListSerializer(s) == Get(s, "kind", None) = "ListSerializer"

\* is_serializer(obj): any BaseSerializer, ListSerializer included
is_serializer(s) == Get(s, "kind", None) \in {"Serializer", "ListSerializer"}

\* is_basic_type(obj): an OpenApiTypes member or a plain python type
is_basic_type(s) == Get(s, "basic", None) \in BasicTypes

\* --------------------------------------------------- AutoSchema: naming
\* name.endswith('Serializer') => name[:-10]
StripSerializer(name) ==
  IF Len(name) > 0 /\ name[Len(name)] = "Serializer"
  THEN SubSeq(name, 1, Len(name) - 1)
  ELSE name

\* _get_serializer_name with Meta.ref_name looked up before the serializer
\* extension (fault injection)
get_serializer_name_ref_first(serializer, direction, method) ==
  LET Suffixed(patched) ==
        IF direction = "request" /\ settings.COMPONENT_SPLIT_REQUEST
        THEN patched \o "Request"
        ELSE patched
      Patched(name) ==
        Suffixed(IF method = "PATCH" /\ settings.COMPONENT_SPLIT_PATCH
                    /\ ~Get(serializer, "read_only", FALSE) /\ direction = "request"
                 THEN "Patched" \o name
                 ELSE name)
      Named(rec) ==
        Patched(Concat(StripSerializer(IF Has(rec, "ref_name") THEN rec.ref_name
                                       ELSE IF Has(rec, "ext_name") THEN rec.ext_name
                                       ELSE rec.name)))
  IN  Named(Serializers[serializer.cls])

\* _get_serializer_name whose line 903 tests neither the direction nor
\* read_only (fault injection)
get_serializer_name_patched_always(serializer, direction, method) ==
  LET Suffixed(patched) ==
        IF direction = "request" /\ settings.COMPONENT_SPLIT_REQUEST
        THEN patched \o "Request"
        ELSE patched
      Patched(name) ==
        Suffixed(IF method = "PATCH" /\ settings.COMPONENT_SPLIT_PATCH
                 THEN "Patched" \o name
                 ELSE name)
      Named(rec) ==
        Patched(Concat(StripSerializer(IF Has(rec, "ext_name") THEN rec.ext_name
                                       ELSE IF Has(rec, "ref_name") THEN rec.ref_name
                                       ELSE rec.name)))
  IN  Named(Serializers[serializer.cls])

get_serializer_name(serializer, direction, method) ==
  LET Suffixed(patched) ==
        IF direction = "request" /\ settings.COMPONENT_SPLIT_REQUEST
        THEN patched \o "Request"
        ELSE patched
      Patched(name) ==
        Suffixed(IF method = "PATCH" /\ settings.COMPONENT_SPLIT_PATCH
                    /\ ~Get(serializer, "read_only", FALSE) /\ direction = "request"
                 THEN "Patched" \o name
                 ELSE name)
      Named(rec) ==
        Patched(Concat(StripSerializer(IF Has(rec, "ext_name") THEN rec.ext_name
                                       ELSE IF Has(rec, "ref_name") THEN rec.ref_name
                                       ELSE rec.name)))
  IN  Named(IF Has(serializer, "component_name")
            THEN [ext_name |-> serializer.component_name]
            ELSE Serializers[serializer.cls])

\* --------------------------------------------- AutoSchema: field mapping
get_serializer_field_meta(field) ==
  LET Meta(default) ==
       Merge(Merge(Merge(Merge(
        IF Get(field, "read_only", FALSE) THEN [readOnly |-> TRUE] ELSE EmptyDict,
        IF Get(field, "write_only", FALSE) THEN [writeOnly |-> TRUE] ELSE EmptyDict),
        IF Get(field, "allow_null", FALSE) THEN [nullable |-> TRUE] ELSE EmptyDict),
        IF default.kind \notin {None, "empty", "callable"}
        THEN [default |-> default.value] ELSE EmptyDict),
        IF Get(field, "help_text", "") # ""
        THEN [description |-> field.help_text] ELSE EmptyDict)
  IN  Meta(Get(field, "default", [kind |-> "empty"]))

\* `if field.max_value:` / `if field.min_value:` (0 and None are falsy)
map_min_max(field, content) ==
  Merge(Merge(content,
        IF Get(field, "max_value", ToBigInt(0)) # ToBigInt(0)
        THEN [maximum |-> field.max_value] ELSE EmptyDict),
        IF Get(field, "min_value", ToBigInt(0)) # ToBigInt(0)
        THEN [minimum |-> field.min_value] ELSE EmptyDict)

Int32Max == 2147483647

\* int(text): the number a string of decimal digits spells
RECURSIVE int(_)
int(text) ==
  LET Digit(d) ==
        CHOOSE i \in 0..9 : <<"0", "1", "2", "3", "4", "5", "6", "7", "8", "9">>[i + 1] = d
  IN  IF Len(text) = 1 THEN Digit(text[1])
      ELSE int(SubSeq(text, 1, Len(text) - 1)) * 10 + Digit(text[Len(text)])

\* float(text) of '.' and the digits after it: mantissa * 10^exponent
float(text) == [mantissa |-> int(Tail(text)), exponent |-> 0 - Len(Tail(text))]

\* float('.' + (decimal_places - 1) * '0' + '1')
decimal_step(decimal_places) ==
  float(<<".">> \o [i \in 1..(decimal_places - 1) |-> "0"] \o <<"1">>)

\* int(digits * '9') with the one-off dropped (fault injection)
decimal_limit_nines(digits) == int([i \in 1..digits |-> "9"])

\* int(digits * '9') + 1
decimal_limit(digits) == int([i \in 1..digits |-> "9"]) + 1

\* the DecimalField branch of _map_serializer_field. DecimalField.__init__
\* sets max_whole_digits = max_digits - decimal_places when both are given,
\* None otherwise; `if field.decimal_places:` and `if field.max_whole_digits:`
\* are falsy for 0 and None
map_decimal_field(field) ==
  LET Limits(content, maximum) ==
        Merge(content, [maximum |-> ToBigInt(maximum), minimum |-> ToBigInt(0 - maximum)])
      Whole(content) ==
        IF Has(field, "max_digits") /\ Has(field, "decimal_places")
           /\ field.max_digits - field.decimal_places # 0
        THEN Limits(content, decimal_limit(field.max_digits - field.decimal_places))
        ELSE content
      Places(content) ==
        IF Has(field, "decimal_places") /\ field.decimal_places # 0
        THEN Merge(content, [multipleOf |-> decimal_step(field.decimal_places)])
        ELSE content
  IN  map_min_max(field,
        Whole(Places(IF Get(field, "coerce_to_string", TRUE)
                     THEN Merge(build_basic_type("STR"), [format |-> "decimal"])
                     ELSE build_basic_type("DECIMAL"))))

\* the branches of _map_serializer_field for fields that are not serializers
map_plain_field(field) ==
  LET Int64(content) ==
        IF GreaterThan(Get(content, "maximum", ToBigInt(0)), ToBigInt(Int32Max))
           \/ GreaterThan(Get(content, "minimum", ToBigInt(0)), ToBigInt(Int32Max))
        THEN Merge(content, [format |-> "int64"])
        ELSE content
  IN  CASE field.kind = "IntegerField" -> Int64(map_min_max(field, build_basic_type("INT")))
        [] field.kind = "DecimalField" -> map_decimal_field(field)
        [] field.kind = "FloatField"   ->
             map_min_max(field, build_basic_type("FLOAT"))
        [] OTHER ->
             build_basic_type(CASE field.kind = "UUIDField"    -> "UUID"
                                [] field.kind = "URLField"     -> "URI"
                                [] field.kind = "BooleanField" -> "BOOL"
                                [] field.kind = "JSONField"    -> "OBJECT"
                                [] OTHER                       -> "STR")

KnownFieldKinds ==
  {"UUIDField", "URLField", "DecimalField", "FloatField", "IntegerField",
   "BooleanField", "JSONField", "CharField"}

Warn(st, w) == [st EXCEPT !.warnings = @ \cup {w}]

\* _postprocess_serializer_schema: the request/response split
postprocess_serializer_schema(schema, direction) ==
  LET Stripped(properties) ==
        {p \in DOMAIN properties :
           \/ direction = "request"  /\ Get(properties[p], "readOnly", FALSE)
           \/ direction = "response" /\ Get(properties[p], "writeOnly", FALSE)}
      Requirements(s1, stripped) ==
        IF Has(s1, "required") THEN [s1 EXCEPT !.required = @ \ stripped] ELSE s1
      Properties(stripped) ==
        Requirements(IF Has(schema, "properties")
                     THEN [schema EXCEPT !.properties =
                             [p \in (DOMAIN @) \ stripped |-> @[p]]]
                     ELSE schema,
                     stripped)
  IN  IF ~settings.COMPONENT_SPLIT_REQUEST THEN schema
      ELSE Properties(Stripped(Get(schema, "properties", EmptyDict)))

\* ------------------------------------- AutoSchema: serializer resolution
\* The run's mutable state is threaded through the mutually recursive
\* methods as st = [reg, mapped, warnings]; each returns the state it leaves.
RECURSIVE resolve_serializer(_, _, _, _)
RECURSIVE map_serializer_field(_, _, _, _)
RECURSIVE map_fields(_, _, _, _, _)

\* _map_serializer_field(field, direction) -> [st, schema]
map_serializer_field(st, field, direction, method) ==
  LET Nest(r, meta) == [st |-> r.st, schema |-> append_meta(Ref(r.component), meta)]
      NestMany(r, meta) ==
        [st |-> r.st, schema |-> append_meta(build_array_type(Ref(r.component)), meta)]
      Map(meta) ==
        IF Has(field, "override")
        THEN IF Has(field.override, "basic")
             THEN [st |-> st, schema |-> build_basic_type(field.override.basic)]
             ELSE map_serializer_field(st, field.override.field, direction, method)
        ELSE IF Has(field, "extension")
        THEN [st |-> st, schema |-> append_meta(field.extension, meta)]
        ELSE IF field.kind = "Serializer"
        THEN Nest(resolve_serializer(st, field, direction, method), meta)
        ELSE IF field.kind = "ListSerializer"
        THEN NestMany(resolve_serializer(st, Child(field), direction, method), meta)
        ELSE IF field.kind \in KnownFieldKinds
        THEN [st |-> st, schema |-> append_meta(map_plain_field(field), meta)]
        ELSE [st |-> Warn(st, "could not resolve serializer field"),
              schema |-> append_meta(build_basic_type("STR"), meta)]
  IN  Map(get_serializer_field_meta(field))

\* _map_field_validators(field, schema) over validators, the rest of
\* field.validators: the limit and the decimal validators
RECURSIVE map_field_validators(_, _)
map_field_validators(validators, schema) ==
  LET Limits(maximum) == [maximum |-> ToBigInt(maximum), minimum |-> ToBigInt(0 - maximum)]
      Digits(v) ==
        IF Has(v, "decimal_places") /\ v.decimal_places > 0
        THEN v.max_digits - v.decimal_places
        ELSE v.max_digits
      Decimal(v) ==
        Merge(Merge(schema,
          IF Has(v, "decimal_places") /\ v.decimal_places # 0
          THEN [multipleOf |-> decimal_step(v.decimal_places)] ELSE EmptyDict),
          IF Has(v, "max_digits") /\ v.max_digits # 0
          THEN Limits(decimal_limit(Digits(v))) ELSE EmptyDict)
      Validate(v) ==
        CASE v.kind = "MaxValueValidator" -> Merge(schema, [maximum |-> v.limit_value])
          [] v.kind = "MinValueValidator" -> Merge(schema, [minimum |-> v.limit_value])
          [] v.kind = "DecimalValidator"  -> Decimal(v)
          [] OTHER -> schema
  IN  IF validators = <<>> THEN schema
      ELSE map_field_validators(Tail(validators), Validate(Head(validators)))

\* the loop of _map_basic_serializer with `or schema.get('readOnly')` dropped
\* from the test of line 651 (fault injection)
RECURSIVE map_fields_required_only(_, _, _, _, _)
map_fields_required_only(st, fields, direction, method, acc) ==
  LET Add(field, m) ==
        map_fields_required_only(m.st, Tail(fields), direction, method,
          [properties |->
             (field.field_name :>
                safe_ref(map_field_validators(Get(field, "validators", <<>>), m.schema)))
             @@ acc.properties,
           required |-> IF Get(field, "required", FALSE)
                        THEN acc.required \cup {field.field_name}
                        ELSE acc.required])
  IN  IF fields = <<>>
      THEN [st |-> st, properties |-> acc.properties, required |-> acc.required]
      ELSE IF Head(fields).kind = "HiddenField"
      THEN map_fields_required_only(st, Tail(fields), direction, method, acc)
      ELSE Add(Head(fields), map_serializer_field(st, Head(fields), direction, method))

\* the loop of _map_basic_serializer over serializer.fields.values()
map_fields(st, fields, direction, method, acc) ==
  LET Add(field, m) ==
        map_fields(m.st, Tail(fields), direction, method,
          [properties |->
             (field.field_name :>
                safe_ref(map_field_validators(Get(field, "validators", <<>>), m.schema)))
             @@ acc.properties,
           required |-> IF Get(field, "required", FALSE)
                           \/ Get(m.schema, "readOnly", FALSE)
                        THEN acc.required \cup {field.field_name}
                        ELSE acc.required])
  IN  IF fields = <<>>
      THEN [st |-> st, properties |-> acc.properties, required |-> acc.required]
      ELSE IF Head(fields).kind = "HiddenField"
      THEN map_fields(st, Tail(fields), direction, method, acc)
      ELSE Add(Head(fields), map_serializer_field(st, Head(fields), direction, method))

\* _map_basic_serializer without the suppression of lines 658-660
\* (fault injection)
map_basic_serializer_unsuppressed(st, serializer, direction, method) ==
  LET Build(m) ==
        [st |-> m.st, schema |-> build_object_type(m.properties, m.required)]
  IN  Build(map_fields(st, Serializers[serializer.cls].fields, direction, method,
                       [properties |-> EmptyDict, required |-> {}]))

\* _map_basic_serializer(serializer, direction) -> [st, schema]
map_basic_serializer(st, serializer, direction, method) ==
  LET Build(m) ==
        [st |-> m.st,
         schema |-> build_object_type(m.properties,
                      IF settings.COMPONENT_SPLIT_PATCH
                         /\ method = "PATCH" /\ direction = "request"
                      THEN {}
                      ELSE m.required)]
  IN  Build(map_fields(st, Serializers[serializer.cls].fields, direction, method,
                       [properties |-> EmptyDict, required |-> {}]))

\* _map_serializer(serializer, direction) -> [st, schema]
map_serializer(st, serializer, direction, method) ==
  LET Post(m) ==
        [st |-> m.st, schema |-> postprocess_serializer_schema(m.schema, direction)]
  IN  Post(map_basic_serializer(st, serializer, direction, method))

\* keep_component with the discard policy switched off (fault injection)
keep_every_component(schema) == TRUE

\* keep_component of resolve_serializer
keep_component(schema) ==
  \/ \E nest_tag \in {"oneOf", "allOf", "anyOf"} : Has(schema, nest_tag)
  \/ DOMAIN Get(schema, "properties", EmptyDict) # {}

\* resolve_serializer past the registry lookup: register the new component,
\* map the serializer into it, then keep or discard it
resolve_new_component(st, serializer, direction, method, query) ==
  LET \* lines 923-935: keep or discard, once the schema is mapped
      Finish(component, m, reg2) ==
        IF ~keep_component(m.schema)
        THEN [st |-> [m.st EXCEPT !.reg = RegistryDelete(reg2, component)],
              component |-> Sentinel]
        ELSE [st |-> [m.st EXCEPT !.reg = reg2],
              component |-> [component EXCEPT !.schema = m.schema]]
      \* line 922: component.schema = self._map_serializer(serializer, direction)
      Mapped(component, m) ==
        Finish(component, m, RegistrySetSchema(m.st.reg, component, m.schema))
      \* line 921: self.registry.register(component)
      Registered == RegistryRegister(st.reg, query)
      Bound == RegistryGet(Registered, query)
  IN  Mapped(Bound,
             map_serializer([st EXCEPT !.reg = Registered,
                                       !.mapped = Append(@, Key(Bound))],
                            serializer, direction, method))

\* resolve_serializer whose lookup of lines 918-919 only finds what the
\* current get_operation call has mapped itself (fault injection)
resolve_serializer_per_operation(st, serializer, direction, method) ==
  LET Resolve(query) ==
        IF /\ RegistryContains(st.reg, query)
           /\ Key(RegistryGet(st.reg, query)) \in Range(st.mapped)
        THEN [st |-> st, component |-> RegistryGet(st.reg, query)]
        ELSE resolve_new_component(st, serializer, direction, method, query)
  IN  Resolve(ResolvedComponent(get_serializer_name(serializer, direction, method),
                                SCHEMA, serializer.cls, NoSchema))

\* resolve_serializer whose line 919 returns the component it has just built
\* instead of the stored one (fault injection)
resolve_serializer_returning_query(st, serializer, direction, method) ==
  LET Resolve(query) ==
        IF RegistryContains(st.reg, query)
        THEN [st |-> st, component |-> query]
        ELSE resolve_new_component(st, serializer, direction, method, query)
  IN  Resolve(ResolvedComponent(get_serializer_name(serializer, direction, method),
                                SCHEMA, serializer.cls, NoSchema))

\* resolve_serializer that looks the component up by its name alone
\* (fault injection)
resolve_serializer_by_name(st, serializer, direction, method) ==
  LET Resolve(query) ==
        IF Key(query) \in DOMAIN st.reg
        THEN [st |-> st, component |-> st.reg[Key(query)].component]
        ELSE resolve_new_component(st, serializer, direction, method, query)
  IN  Resolve(ResolvedComponent(get_serializer_name(serializer, direction, method),
                                SCHEMA, serializer.cls, NoSchema))

\* resolve_serializer(serializer, direction) -> [st, component]
resolve_serializer(st, serializer, direction, method) ==
  LET \* lines 910-919: the component is looked up by the computed name
      Resolve(query) ==
        IF RegistryContains(st.reg, query)
        THEN [st |-> st, component |-> RegistryGet(st.reg, query)]
        ELSE resolve_new_component(st, serializer, direction, method, query)
  IN  Resolve(ResolvedComponent(get_serializer_name(serializer, direction, method),
                                SCHEMA, serializer.cls, NoSchema))

\* --------------------------------- PolymorphicProxySerializerExtension
\* PolymorphicProxySerializer(component_name, serializers,
\* resource_type_field_name); the extension's get_name() is component_name
PolymorphicProxySerializer(component_name, serializers, resource_type_field_name) ==
  [field_name |-> "", kind |-> "Serializer", cls |-> "PolymorphicProxySerializer",
   component_name |-> component_name, serializers |-> serializers,
   resource_type_field_name |-> resource_type_field_name]

\* resolve_serializer(serializer, direction) from its first line: the
\* argument bound to `serializer` must pass `assert is_serializer(serializer)`.
\* A Python str handed in is the value [str |-> text].
asserted_resolve_serializer(st, serializer, direction, method) ==
  IF ~is_serializer(serializer)
  THEN [st |-> st, raised |-> "AssertionError"]
  ELSE Merge(resolve_serializer(st, serializer, direction, method), [raised |-> None])

\* PolymorphicProxySerializerExtension.map_serializer(auto_schema, method),
\* over subs, the rest of serializer.serializers, with the sub_components
\* gathered so far.  Line 32 calls resolve_serializer(method, sub_serializer):
\* the string lands in `serializer`, the sub-serializer in `direction`.
\* http_method is auto_schema.method.
RECURSIVE polymorphic_map_serializer(_, _, _, _, _, _)
polymorphic_map_serializer(st, serializer, method, subs, sub_components, http_method) ==
  LET Discriminators(sub) ==
        {f \in {Serializers[sub.cls].fields[i] : i \in DOMAIN Serializers[sub.cls].fields} :
           f.field_name = serializer.resource_type_field_name /\ Has(f, "representation")}
      \* lines 34-45: the discriminator's value, else the component's name
      Gathered(sub, r) ==
        IF Discriminators(sub) # {}
        THEN polymorphic_map_serializer(r.st, serializer, method, Tail(subs),
               Append(sub_components,
                      [resource_type |-> (CHOOSE f \in Discriminators(sub) : TRUE).representation,
                       ref |-> Ref(r.component)]),
               http_method)
        ELSE polymorphic_map_serializer(
               Warn(r.st, "sub-serializer must contain the discriminator field"),
               serializer, method, Tail(subs),
               Append(sub_components,
                      [resource_type |-> r.component.name, ref |-> Ref(r.component)]),
               http_method)
      Resolved(sub, r) == IF r.raised # None THEN r ELSE Gathered(sub, r)
  IN  IF subs = <<>>
      THEN [st |-> st, raised |-> None,
            schema |->
              [oneOf |-> [i \in DOMAIN sub_components |-> sub_components[i].ref],
               discriminator |->
                 [propertyName |-> serializer.resource_type_field_name,
                  mapping |->
                    [t \in {sub_components[i].resource_type : i \in DOMAIN sub_components} |->
                       sub_components[CHOOSE i \in DOMAIN sub_components :
                         /\ sub_components[i].resource_type = t
                         /\ \A j \in DOMAIN sub_components :
                              sub_components[j].resource_type = t => j <= i].ref.ref]]]]
      ELSE Resolved(Instance(Head(subs)),
             asserted_resolve_serializer(st, [str |-> method], Instance(Head(subs)),
                                         http_method))

\* resolve_serializer(serializer, direction) on a PolymorphicProxySerializer:
\* _map_serializer hands the mapping to the extension (lines 590-593); an
\* exception leaves with the component registered and its schema unset
resolve_polymorphic(st, serializer, direction, method) ==
  LET Finish(component, m) ==
        IF m.raised # None THEN [st |-> m.st, raised |-> m.raised, component |-> Sentinel]
        ELSE [st |-> [m.st EXCEPT !.reg =
                        RegistrySetSchema(m.st.reg, component,
                          postprocess_serializer_schema(m.schema, direction))],
              raised |-> None,
              component |-> [component EXCEPT !.schema =
                               postprocess_serializer_schema(m.schema, direction)]]
      Register(query, Registered) ==
        Finish(RegistryGet(Registered, query),
               polymorphic_map_serializer(
                 [st EXCEPT !.reg = Registered,
                            !.mapped = Append(@, Key(RegistryGet(Registered, query)))],
                 serializer, direction, serializer.serializers, <<>>, method))
      Resolve(query) ==
        IF RegistryContains(st.reg, query)
        THEN [st |-> st, raised |-> None, component |-> RegistryGet(st.reg, query)]
        ELSE Register(query, RegistryRegister(st.reg, query))
  IN  Resolve(ResolvedComponent(get_serializer_name(serializer, direction, method),
                                SCHEMA, serializer.cls, NoSchema))

\* ------------------------------------------------------ routes and views
\* A path template is a sequence of lexical tokens: "/", "{", "}", "-" and
\* words that contain none of them.  str methods act on the joined text.
Methods == {"GET", "POST", "PUT", "PATCH", "DELETE"}

\* method.lower()
Lower(method) ==
  CASE method = "GET" -> "get" [] method = "POST" -> "post"
    [] method = "PUT" -> "put" [] method = "PATCH" -> "patch"
    [] method = "DELETE" -> "delete" [] OTHER -> method

NoBody == [none |-> TRUE]

\* the default serializer=None of _is_list_view
NoArg == [noarg |-> TRUE]

\* the handler, with the defaults of a bare APIView.  Optional keys:
\*   request, responses  the @extend_schema overrides of the bodies
\*   model               view.queryset.model: field name -> model field
\*   filter_backends     the parameters view.filter_backends declare
\*   paginator           the parameters view.pagination_class declares
View ==
  [ generic          |-> FALSE,     \* isinstance(view, GenericAPIView)
    list_mixin       |-> FALSE,     \* isinstance(view, ListModelMixin)
    action           |-> None,      \* view.action, None when the attribute is absent
    lookup           |-> "pk",      \* lookup_url_kwarg or lookup_field
    serializer       |-> NoBody,    \* what _get_serializer() obtains
    serializer_error |-> FALSE,     \* obtaining it raises or finds nothing
    parameters       |-> << >>,     \* get_override_parameters()
    authenticators   |-> << >>,
    permissions      |-> {},
    parsers          |-> <<"application/json">>,
    renderers        |-> <<"application/json">> ]

\* uritemplate.variables(path): the names between braces, in order, once each
RECURSIVE PathVariables(_)
PathVariables(path) ==
  IF path = <<>> THEN <<>>
  ELSE IF Head(path) = "{" /\ Len(path) >= 3 /\ path[3] = "}"
  THEN <<path[2]>> \o SelectSeq(PathVariables(SubSeq(path, 4, Len(path))),
                                  LAMBDA v : v # path[2])
  ELSE PathVariables(Tail(path))

\* ------------------------------------------------- AutoSchema: list views
\* _get_serializer(): None after error() when nothing can be obtained
get_serializer(view) ==
  IF view.serializer_error THEN NoBody ELSE view.serializer

\* _get_serializer that gives up without calling error() (fault injection)
report_serializer_error_silent(st, view, override) == st

\* the error() of _get_serializer (lines 756-769), reported when the call
\* that get_request_serializer / get_response_serializers makes without a
\* declared override obtains nothing
report_serializer_error(st, view, override) ==
  IF view.serializer_error /\ ~Has(view, override)
  THEN Warn(st, "error: could not obtain serializer")
  ELSE st

\* get_request_serializer() / get_response_serializers(): the @extend_schema
\* override when one is declared, else _get_serializer()
get_request_serializer(view) ==
  IF Has(view, "request") THEN view.request ELSE get_serializer(view)

get_response_serializers(view) ==
  IF Has(view, "responses") THEN view.responses ELSE get_serializer(view)

\* min() over the str() of the declared codes; codes are three-digit
MinCode(codes) == CHOOSE c \in DOMAIN codes : \A d \in DOMAIN codes : c <= d

\* _is_list_view with the lookup-variable test of lines 109-112 placed before
\* the ListModelMixin test of line 107 (fault injection)
is_list_view_lookup_first(rt, arg) ==
  LET Decide(serializer) ==
        IF IsListSerializer(serializer) THEN TRUE
        ELSE IF is_basic_type(serializer) THEN FALSE
        ELSE IF rt.view.action # None THEN rt.view.action = "list"
        ELSE IF Lower(rt.method) # "get" THEN FALSE
        ELSE IF rt.view.generic /\ rt.view.lookup \in Range(PathVariables(rt.path))
        THEN FALSE
        ELSE rt.view.list_mixin
      Given(given) ==
        Decide(IF Has(given, "codes") /\ DOMAIN given.codes # {}
               THEN given.codes[MinCode(given.codes)]
               ELSE given)
  IN  Given(IF arg = NoArg THEN get_response_serializers(rt.view) ELSE arg)

\* _is_list_view with the method test of line 105 placed first (fault
\* injection)
is_list_view_method_first(rt, arg) ==
  LET Decide(serializer) ==
        IF Lower(rt.method) # "get" THEN FALSE
        ELSE IF IsListSerializer(serializer) THEN TRUE
        ELSE IF is_basic_type(serializer) THEN FALSE
        ELSE IF rt.view.action # None THEN rt.view.action = "list"
        ELSE rt.view.list_mixin
      Given(given) ==
        Decide(IF Has(given, "codes") /\ DOMAIN given.codes # {}
               THEN given.codes[MinCode(given.codes)]
               ELSE given)
  IN  Given(IF arg = NoArg THEN get_response_serializers(rt.view) ELSE arg)

\* _is_list_view(serializer=None)
is_list_view(rt, arg) ==
  LET Decide(serializer) ==
        IF IsListSerializer(serializer) THEN TRUE
        ELSE IF is_basic_type(serializer) THEN FALSE
        ELSE IF rt.view.action # None THEN rt.view.action = "list"
        ELSE IF Lower(rt.method) # "get" THEN FALSE
        ELSE IF rt.view.list_mixin THEN TRUE
        ELSE IF rt.view.generic /\ rt.view.lookup \in Range(PathVariables(rt.path))
        THEN FALSE
        ELSE FALSE
      \* lines 89-94: a dict of responses is judged by its lowest status code
      Given(given) ==
        Decide(IF Has(given, "codes") /\ DOMAIN given.codes # {}
               THEN given.codes[MinCode(given.codes)]
               ELSE given)
  IN  Given(IF arg = NoArg THEN get_response_serializers(rt.view) ELSE arg)

\* ------------------------------------------- AutoSchema: operationId, tags
\* str.lower() on a token, for re.IGNORECASE
LowerToken(t) == CASE t = "API" -> "api" [] t = "V1" -> "v1" [] OTHER -> t

MatchesAt(path, pattern) ==
  /\ Len(path) >= Len(pattern)
  /\ \A i \in 1..Len(pattern) : LowerToken(path[i]) = LowerToken(pattern[i])

\* re.sub(pattern, '', path, flags=re.IGNORECASE) for a literal pattern:
\* every non-overlapping match is removed, left to right
RECURSIVE ReSub(_, _)
ReSub(pattern, path) ==
  IF pattern = <<>> \/ path = <<>> THEN path
  ELSE IF MatchesAt(path, pattern)
  THEN ReSub(pattern, SubSeq(path, Len(pattern) + 1, Len(path)))
  ELSE <<Head(path)>> \o ReSub(pattern, Tail(path))

RECURSIVE RStrip(_)
\* path.rstrip('/')
RStrip(path) ==
  IF path # <<>> /\ path[Len(path)] = "/"
  THEN RStrip(SubSeq(path, 1, Len(path) - 1)) ELSE path

RECURSIVE LStrip(_)
\* path.lstrip('/')
LStrip(path) ==
  IF path # <<>> /\ Head(path) = "/" THEN LStrip(Tail(path)) ELSE path

RECURSIVE SplitSlash(_, _)
\* path.split('/'): cur is the segment being read
SplitSlash(path, cur) ==
  IF path = <<>> THEN <<cur>>
  ELSE IF Head(path) = "/" THEN <<cur>> \o SplitSlash(Tail(path), <<>>)
  ELSE SplitSlash(Tail(path), Append(cur, Head(path)))

\* _tokenize_path(): the kept segments, each still a token sequence
tokenize_path(path) ==
  SelectSeq(SplitSlash(LStrip(RStrip(ReSub(settings.SCHEMA_PATH_PREFIX, path))), <<>>),
            LAMBDA t : t # <<>> /\ Head(t) # "{")

\* t.replace('-', '_') on a segment, as text
ReplaceDash(t) == Concat([i \in DOMAIN t |-> IF t[i] = "-" THEN "_" ELSE t[i]])

RECURSIVE JoinUnderscore(_)
\* '_'.join(parts)
JoinUnderscore(parts) ==
  IF parts = <<>> THEN ""
  ELSE IF Len(parts) = 1 THEN Head(parts)
  ELSE Head(parts) \o "_" \o JoinUnderscore(Tail(parts))

method_mapping(method) ==
  CASE Lower(method) = "get"    -> "retrieve"
    [] Lower(method) = "post"   -> "create"
    [] Lower(method) = "put"    -> "update"
    [] Lower(method) = "patch"  -> "partial_update"
    [] Lower(method) = "delete" -> "destroy"

get_operation_id(rt) ==
  LET Replaced(tokenized) == [i \in DOMAIN tokenized |-> ReplaceDash(tokenized[i])]
      action == IF Lower(rt.method) = "get" /\ is_list_view(rt, NoArg)
                THEN "list"
                ELSE method_mapping(rt.method)
  IN  JoinUnderscore(Replaced(tokenize_path(rt.path)) \o <<action>>)

\* get_tags(): tokenized_path[:1]
get_tags(rt) ==
  LET First(tokenized) ==
        IF tokenized = <<>> THEN <<>> ELSE <<Concat(Head(tokenized))>>
  IN  First(tokenize_path(rt.path))

\* ------------------------------------------------ AutoSchema: parameters
\* build_parameter_type(name, schema, location, required): a path parameter
\* is required whatever the declaration says
build_parameter_type(name, schema, location, required) ==
  [name |-> name, in |-> location, schema |-> schema,
   required |-> (required \/ location = "path")]

\* OpenApiParameter(name, type, location, required)
OpenApiParameter(name, type, location) ==
  [name |-> name, type |-> type, location |-> location, required |-> FALSE]

\* dict_helper: {(p['name'], p['in']): p for p in parameters}; a later
\* parameter with the same key replaces an earlier one
RECURSIVE dict_helper(_)
dict_helper(parameters) ==
  IF parameters = <<>> THEN EmptyDict
  ELSE LET p == parameters[Len(parameters)]
       IN  (<<p.name, p.in>> :> p)
             @@ dict_helper(SubSeq(parameters, 1, Len(parameters) - 1))

\* the parameters an exploded serializer yields, one per mapped property
ExplodedParameters(mapped) ==
  LET props == Get(mapped, "properties", EmptyDict)
      names == DOMAIN props
      Order == CHOOSE seq \in [1..Cardinality(names) -> names] :
                 \A i, j \in DOMAIN seq : i # j => seq[i] # seq[j]
  IN  [i \in DOMAIN Order |->
         build_parameter_type(Order[i], props[Order[i]], "query",
                              Order[i] \in Get(mapped, "required", {}))]

\* _process_override_parameters() -> [st, result]
RECURSIVE process_override_parameters(_, _, _)
process_override_parameters(st, rt, parameters) ==
  LET Then(here, rest) == [st |-> rest.st, result |-> here \o rest.result]
      Declared(parameter, st1, schema) ==
        Then(<< build_parameter_type(parameter.name, schema,
                                     parameter.location, parameter.required) >>,
             process_override_parameters(st1, rt, Tail(parameters)))
      DeclaredRef(parameter, r) == Declared(parameter, r.st, Ref(r.component))
      Exploded(m) ==
        Then(ExplodedParameters(m.schema),
             process_override_parameters(m.st, rt, Tail(parameters)))
      One(parameter) ==
        IF Has(parameter, "location")
        THEN IF is_basic_type(parameter.type)
             THEN Declared(parameter, st, build_basic_type(parameter.type.basic))
             ELSE IF is_serializer(parameter.type)
             THEN DeclaredRef(parameter,
                    resolve_serializer(st, parameter.type, "request", rt.method))
             ELSE Declared(parameter, st, parameter.type)
        ELSE IF is_serializer(parameter)
        THEN Exploded(map_serializer(st, parameter, "request", rt.method))
        ELSE process_override_parameters(
               Warn(st, "could not resolve parameter annotation"), rt, Tail(parameters))
  IN  IF parameters = <<>> THEN [st |-> st, result |-> <<>>]
      ELSE One(Head(parameters))

\* _map_model_field(model_field, direction) -> [st, schema].  A model field
\* carries the serializer field DRF's build_field makes of it ("field"),
\* the field a ForeignKey targets ("target_field"), or the serializer field
\* kind serializer_field_mapping has for its get_internal_type().
RECURSIVE map_model_field(_, _, _, _)
map_model_field(st, model_field, direction, method) ==
  IF Has(model_field, "field")
  THEN map_serializer_field(st, model_field.field, direction, method)
  ELSE IF Has(model_field, "target_field")
  THEN map_model_field(st, model_field.target_field, direction, method)
  ELSE IF Has(model_field, "internal_type")
  THEN map_serializer_field(st, Field("", model_field.internal_type), direction, method)
  ELSE [st |-> Warn(st, "error: could not resolve model field"),
        schema |-> build_basic_type("STR")]

irrelevant_field_meta == {"readOnly", "writeOnly", "nullable", "default"}

\* get_pk_description(model, model_field)
PkDescription == "A unique value identifying this object."

\* _resolve_path_parameters that consults neither the route regex nor the
\* model (fault injection)
resolve_path_parameters_untyped(st, rt, variables) ==
  [st |-> st,
   parameters |-> [i \in DOMAIN variables |->
                     [name |-> variables[i], in |-> "path", required |-> TRUE,
                      description |-> "", schema |-> build_basic_type("STR")]]]

\* _resolve_path_parameters(variables) -> [st, parameters]
RECURSIVE resolve_path_parameters(_, _, _)
resolve_path_parameters(st, rt, variables) ==
  LET Then(parameter, rest) ==
        [st |-> rest.st, parameters |-> <<parameter>> \o rest.parameters]
      Emit(variable, st1, schema, required, description) ==
        Then([name |-> variable, in |-> "path", required |-> required,
              description |-> description, schema |-> schema],
             resolve_path_parameters(st1, rt, Tail(variables)))
      Stripped(schema) ==
        [k \in (DOMAIN schema) \ irrelevant_field_meta |-> schema[k]]
      FromModel(variable, m) ==
        Emit(variable, m.st, Stripped(m.schema), TRUE,
             IF ~Has(Stripped(m.schema), "description")
                /\ Get(rt.view.model[variable], "primary_key", FALSE)
             THEN PkDescription ELSE "")
      One(variable) ==
        IF Has(rt.path_regex, variable)
        THEN Emit(variable, st, rt.path_regex[variable].schema,
                  rt.path_regex[variable].required, "")
        ELSE IF ~Has(rt.view, "model")
        THEN Emit(variable,
                  Warn(st, "could not derive type of path parameter: no queryset"),
                  build_basic_type("STR"), TRUE, "")
        ELSE IF Has(rt.view.model, variable)
        THEN FromModel(variable,
                       map_model_field(st, rt.view.model[variable], None, rt.method))
        ELSE Emit(variable,
                  Warn(st, "could not derive type of path parameter: no such field"),
                  build_basic_type("STR"), TRUE, "")
  IN  IF variables = <<>> THEN [st |-> st, parameters |-> <<>>]
      ELSE One(Head(variables))

\* _allows_filters()
allows_filters(rt) ==
  IF ~Has(rt.view, "filter_backends") THEN FALSE
  ELSE IF rt.view.action # None
  THEN rt.view.action \in {"list", "retrieve", "update", "partial_update", "destroy"}
  ELSE Lower(rt.method) \in {"get", "put", "patch", "delete"}

get_filter_parameters(rt) ==
  IF ~allows_filters(rt) THEN <<>> ELSE rt.view.filter_backends

get_pagination_parameters(rt) ==
  IF ~is_list_view(rt, NoArg) THEN <<>>
  ELSE IF ~Has(rt.view, "paginator") THEN <<>>
  ELSE rt.view.paginator

\* _get_parameters whose lines 162-166 merge the sources in the reverse
\* order, so that a path parameter replaces a filter parameter and a filter
\* parameter a pagination parameter (fault injection)
get_parameters_path_last(st, rt) ==
  LET Result(override_parameters, r) ==
        [st |-> r.st,
         parameters |->
           Merge(Merge(Merge(dict_helper(get_pagination_parameters(rt)),
                             dict_helper(get_filter_parameters(rt))),
                       dict_helper(r.parameters)),
                 override_parameters)]
      Path(st1, override_parameters) ==
        Result(override_parameters,
               resolve_path_parameters(st1, rt,
                 SelectSeq(PathVariables(rt.path),
                   LAMBDA v : <<v, "path">> \notin DOMAIN override_parameters)))
      Merged(o) == Path(o.st, dict_helper(o.result))
  IN  Merged(process_override_parameters(st, rt, rt.view.parameters))

\* _get_parameters() -> [st, parameters]: the merged dict; the code returns
\* its values sorted by name
get_parameters(st, rt) ==
  LET Result(override_parameters, r) ==
        [st |-> r.st,
         parameters |->
           Merge(Merge(Merge(dict_helper(r.parameters),
                             dict_helper(get_filter_parameters(rt))),
                       dict_helper(get_pagination_parameters(rt))),
                 override_parameters)]
      Path(st1, override_parameters) ==
        Result(override_parameters,
               resolve_path_parameters(st1, rt,
                 SelectSeq(PathVariables(rt.path),
                   LAMBDA v : <<v, "path">> \notin DOMAIN override_parameters)))
      Overridden(o) == Path(o.st, dict_helper(o.result))
  IN  Overridden(process_override_parameters(st, rt, rt.view.parameters))

\* ------------------------------------------ AutoSchema: bodies, security
Content(media_types, schema) ==
  [mt \in Range(media_types) |-> [schema |-> schema]]

\* _get_request_body whose ListSerializer branch derives `required` from the
\* child's component as the single-record branch does, and drops the body of
\* a discarded child (fault injection)
get_request_body_many_as_single(st, rt) ==
  LET Body(schema, required) ==
        Merge([content |-> Content(rt.view.parsers, schema)],
              IF required THEN [required |-> TRUE] ELSE EmptyDict)
      BodyRequired(props, required_props) ==
        \E req \in required_props :
           req \notin {q \in DOMAIN props : Get(props[q], "readOnly", FALSE)}
      Many(r) ==
        IF ~Truthy(r.component)
        THEN [st |-> r.st, body |-> NoBody]
        ELSE [st |-> r.st,
              body |-> Body(build_array_type(Ref(r.component)),
                            BodyRequired(Get(r.component.schema, "properties", EmptyDict),
                                         Get(r.component.schema, "required", {})))]
      Single(r) ==
        IF ~Truthy(r.component)
        THEN [st |-> r.st, body |-> NoBody]
        ELSE [st |-> r.st,
              body |-> Body(Ref(r.component),
                            BodyRequired(Get(r.component.schema, "properties", EmptyDict),
                                     Get(r.component.schema, "required", {})))]
      For(serializer) ==
        IF IsListSerializer(serializer)
        THEN Many(resolve_serializer(st, Child(serializer), "request", rt.method))
        ELSE IF is_serializer(serializer)
        THEN Single(resolve_serializer(st, serializer, "request", rt.method))
        ELSE IF is_basic_type(serializer)
        THEN [st |-> st, body |-> Body(build_basic_type(serializer.basic), FALSE)]
        ELSE [st |-> Warn(report_serializer_error(st, rt.view, "request"),
                          "could not resolve request body"),
              body |-> Body([type |-> "object", additionalProperties |-> EmptyDict,
                             description |-> "Unspecified request body"], FALSE)]
  IN  IF rt.method \notin {"PUT", "PATCH", "POST"} THEN [st |-> st, body |-> NoBody]
      ELSE For(get_request_serializer(rt.view))

\* _get_request_body() -> [st, body]; body NoBody stands for None
get_request_body(st, rt) ==
  LET Body(schema, required) ==
        Merge([content |-> Content(rt.view.parsers, schema)],
              IF required THEN [required |-> TRUE] ELSE EmptyDict)
      Many(r) ==
        [st |-> r.st, body |-> Body(build_array_type(Ref(r.component)), TRUE)]
      BodyRequired(props, required_props) ==
        \E req \in required_props :
           req \notin {q \in DOMAIN props : Get(props[q], "readOnly", FALSE)}
      Single(r) ==
        IF ~Truthy(r.component)
        THEN [st |-> r.st, body |-> NoBody]
        ELSE [st |-> r.st,
              body |-> Body(Ref(r.component),
                            BodyRequired(Get(r.component.schema, "properties", EmptyDict),
                                     Get(r.component.schema, "required", {})))]
      For(serializer) ==
        IF IsListSerializer(serializer)
        THEN Many(resolve_serializer(st, Child(serializer), "request", rt.method))
        ELSE IF is_serializer(serializer)
        THEN Single(resolve_serializer(st, serializer, "request", rt.method))
        ELSE IF is_basic_type(serializer)
        THEN [st |-> st, body |-> Body(build_basic_type(serializer.basic), FALSE)]
        ELSE [st |-> Warn(report_serializer_error(st, rt.view, "request"),
                          "could not resolve request body"),
              body |-> Body([type |-> "object", additionalProperties |-> EmptyDict,
                             description |-> "Unspecified request body"], FALSE)]
  IN  IF rt.method \notin {"PUT", "PATCH", "POST"} THEN [st |-> st, body |-> NoBody]
      ELSE For(get_request_serializer(rt.view))

\* the loop of get_auth() over view.get_authenticators() -> [st, auths].  An
\* authenticator carries "scheme" when an OpenApiAuthenticationExtension
\* matches its class.
RECURSIVE get_authenticators(_, _)
get_authenticators(st, authenticators) ==
  LET Then(scheme, rest) ==
        [st |-> rest.st,
         auths |-> (IF Has(scheme, "requirement")
                    THEN << scheme.requirement >> ELSE << >>) \o rest.auths]
      Registered(scheme, component) ==
        Then(scheme,
             get_authenticators(
               IF ~RegistryContains(st.reg, component)
               THEN [st EXCEPT !.reg = RegistryRegister(@, component)]
               ELSE st,
               Tail(authenticators)))
      One(authenticator) ==
        IF ~Has(authenticator, "scheme")
        THEN get_authenticators(Warn(st, "could not resolve authenticator"),
                                Tail(authenticators))
        ELSE Registered(authenticator.scheme,
               ResolvedComponent(authenticator.scheme.name, SECURITY_SCHEMA,
                                 authenticator.cls, authenticator.scheme.definition))
  IN  IF authenticators = <<>> THEN [st |-> st, auths |-> <<>>]
      ELSE One(Head(authenticators))

\* get_auth whose line 214 does not look at the method (fault injection)
get_auth_any_method(st, rt) ==
  LET Perms(a, perms) ==
        [st |-> a.st,
         auths |-> IF "AllowAny" \in perms THEN Append(a.auths, EmptyDict)
                   ELSE IF "IsAuthenticatedOrReadOnly" \in perms
                   THEN Append(a.auths, EmptyDict)
                   ELSE a.auths]
  IN  Perms(get_authenticators(st, rt.view.authenticators), rt.view.permissions)

\* get_auth() -> [st, auths]
get_auth(st, rt) ==
  LET Perms(a, perms) ==
        [st |-> a.st,
         auths |-> IF "AllowAny" \in perms THEN Append(a.auths, EmptyDict)
                   ELSE IF "IsAuthenticatedOrReadOnly" \in perms
                           /\ rt.method \notin {"PUT", "PATCH", "POST"}
                   THEN Append(a.auths, EmptyDict)
                   ELSE a.auths]
  IN  Perms(get_authenticators(st, rt.view.authenticators), rt.view.permissions)

\* paginator.get_paginated_response_schema(schema)
get_paginated_response_schema(schema) ==
  [type |-> "object",
   properties |-> [count |-> [type |-> "integer"], results |-> schema]]

\* _get_response_for_code whose line 868 asks the list heuristic about the
\* operation's response descriptor instead of the body at hand, and
\* disregards many=False (fault injection)
get_response_for_code_by_operation(st, rt, serializer) ==
  LET NoResponse(st1) == [st |-> st1, response |-> [description |-> "No response body"]]
      Response(st1, schema) ==
        [st |-> st1,
         response |->
           [content |-> Content(rt.view.renderers,
              IF is_list_view(rt, NoArg)
              THEN IF Has(rt.view, "paginator")
                   THEN get_paginated_response_schema(build_array_type(schema))
                   ELSE build_array_type(schema)
              ELSE schema),
            description |-> ""]]
      Many(r) == Response(r.st, Ref(r.component))
      Single(r) ==
        IF ~Truthy(r.component) THEN NoResponse(r.st)
        ELSE Response(r.st, Ref(r.component))
  IN  IF serializer = NoBody THEN NoResponse(st)
      ELSE IF IsListSerializer(serializer)
      THEN Many(resolve_serializer(st, Child(serializer), "response", rt.method))
      ELSE IF is_serializer(serializer)
      THEN Single(resolve_serializer(st, serializer, "response", rt.method))
      ELSE IF is_basic_type(serializer)
      THEN Response(st, build_basic_type(serializer.basic))
      ELSE IF Has(serializer, "raw")
      THEN IF DOMAIN serializer.raw = {} THEN NoResponse(st)
           ELSE Response(st, serializer.raw)
      ELSE Response(Warn(st, "could not resolve response"),
                    Merge(build_basic_type("OBJECT"),
                          [description |-> "Unspecified response body"]))

\* _get_response_for_code(serializer) -> [st, response]
get_response_for_code(st, rt, serializer) ==
  LET NoResponse(st1) == [st |-> st1, response |-> [description |-> "No response body"]]
      \* lines 868-882: wrap for list views, then the response object
      Response(st1, schema) ==
        [st |-> st1,
         response |->
           [content |-> Content(rt.view.renderers,
              IF is_list_view(rt, serializer)
                 /\ ~(Has(serializer, "many") /\ serializer.many = FALSE)
              THEN IF Has(rt.view, "paginator")
                   THEN get_paginated_response_schema(build_array_type(schema))
                   ELSE build_array_type(schema)
              ELSE schema),
            description |-> ""]]
      Many(r) == Response(r.st, Ref(r.component))
      Single(r) ==
        IF ~Truthy(r.component) THEN NoResponse(r.st)
        ELSE Response(r.st, Ref(r.component))
  IN  IF serializer = NoBody THEN NoResponse(st)
      ELSE IF IsListSerializer(serializer)
      THEN Many(resolve_serializer(st, Child(serializer), "response", rt.method))
      ELSE IF is_serializer(serializer)
      THEN Single(resolve_serializer(st, serializer, "response", rt.method))
      ELSE IF is_basic_type(serializer)
      THEN Response(st, build_basic_type(serializer.basic))
      ELSE IF Has(serializer, "raw")
      THEN IF DOMAIN serializer.raw = {} THEN NoResponse(st)
           ELSE Response(st, serializer.raw)
      ELSE Response(Warn(st, "could not resolve response"),
                    Merge(build_basic_type("OBJECT"),
                          [description |-> "Unspecified response body"]))

\* str(code) of a declared status code
StatusText(code) == ToString(code)

\* the dict branch of _get_response_bodies answering with the lowest code's
\* body alone, under '200' (fault injection)
get_responses_for_lowest_code(st, rt, codes, order) ==
  LET Ok(r) == [st |-> r.st, responses |-> ("200" :> r.response)]
  IN  Ok(get_response_for_code(st, rt, codes[MinCode(codes)]))

\* the dict branch of _get_response_bodies, codes in declaration order
RECURSIVE get_responses_for_codes(_, _, _, _)
get_responses_for_codes(st, rt, codes, order) ==
  LET Then(code, r, rest) ==
        [st |-> rest.st,
         responses |-> rest.responses @@ (StatusText(code) :> r.response)]
      One(code, r) ==
        Then(code, r, get_responses_for_codes(r.st, rt, codes, Tail(order)))
  IN  IF order = <<>> THEN [st |-> st, responses |-> EmptyDict]
      ELSE One(Head(order), get_response_for_code(st, rt, codes[Head(order)]))

\* _get_response_bodies without the DELETE case of lines 823-824 (fault
\* injection)
get_response_bodies_always_200(st, rt) ==
  LET Ok(r) == [st |-> r.st, responses |-> ("200" :> r.response)]
      For(response_serializers) ==
        IF is_serializer(response_serializers) \/ is_basic_type(response_serializers)
        THEN Ok(get_response_for_code(st, rt, response_serializers))
        ELSE IF Has(response_serializers, "codes")
        THEN get_responses_for_codes(st, rt, response_serializers.codes,
                                     response_serializers.order)
        ELSE Ok(get_response_for_code(
                  Warn(report_serializer_error(st, rt.view, "responses"),
                       "could not resolve responses"), rt,
                  [raw |-> Merge(build_basic_type("OBJECT"),
                                 [description |-> "Unspecified response body"])]))
  IN  For(get_response_serializers(rt.view))

\* _get_response_bodies() -> [st, responses]
get_response_bodies(st, rt) ==
  LET Ok(r) == [st |-> r.st, responses |-> ("200" :> r.response)]
      For(response_serializers) ==
        IF is_serializer(response_serializers) \/ is_basic_type(response_serializers)
        THEN IF rt.method = "DELETE"
             THEN [st |-> st,
                   responses |-> ("204" :> [description |-> "No response body"])]
             ELSE Ok(get_response_for_code(st, rt, response_serializers))
        ELSE IF Has(response_serializers, "codes")
        THEN get_responses_for_codes(st, rt, response_serializers.codes,
                                     response_serializers.order)
        ELSE Ok(get_response_for_code(
                  Warn(report_serializer_error(st, rt.view, "responses"),
                       "could not resolve responses"), rt,
                  [raw |-> Merge(build_basic_type("OBJECT"),
                                 [description |-> "Unspecified response body"])]))
  IN  For(get_response_serializers(rt.view))

\* ------------------------------------------------------- the document
\* every $ref a schema fragment holds
RECURSIVE SchemaRefs(_)
SchemaRefs(schema) ==
  (IF Has(schema, "ref") THEN {schema.ref} ELSE {})
  \cup (IF Has(schema, "items") THEN SchemaRefs(schema.items) ELSE {})
  \cup (IF Has(schema, "allOf")
        THEN UNION {SchemaRefs(schema.allOf[i]) : i \in DOMAIN schema.allOf} ELSE {})
  \cup (IF Has(schema, "oneOf")
        THEN UNION {SchemaRefs(schema.oneOf[i]) : i \in DOMAIN schema.oneOf} ELSE {})
  \cup (IF Has(schema, "properties")
        THEN UNION {SchemaRefs(schema.properties[q]) : q \in DOMAIN schema.properties}
        ELSE {})

ContentRefs(body) ==
  IF Has(body, "content")
  THEN UNION {SchemaRefs(body.content[mt].schema) : mt \in DOMAIN body.content}
  ELSE {}

\* every $ref an operation holds: parameters, request body, responses
OperationRefs(op) ==
  (IF Has(op, "parameters")
   THEN UNION {SchemaRefs(op.parameters[k].schema) : k \in DOMAIN op.parameters}
   ELSE {})
  \cup (IF Has(op, "requestBody") THEN ContentRefs(op.requestBody) ELSE {})
  \cup (IF Has(op, "responses")
        THEN UNION {ContentRefs(op.responses[c]) : c \in DOMAIN op.responses}
        ELSE {})

\* ------------------------------------------------------- get_operation
\* get_operation(path, path_regex, method, registry) -> [st, operation]
get_operation(reg, rt) ==
  LET Opt(cond, d) == IF cond THEN d ELSE EmptyDict
      Responses(op, r) ==
        [st |-> r.st, operation |-> Merge(op, [responses |-> r.responses])]
      Auth(op, a) ==
        Responses(Merge(op, Opt(a.auths # <<>>, [security |-> a.auths])),
                  get_response_bodies(a.st, rt))
      RequestBody(op, b) ==
        Auth(Merge(op, Opt(b.body # NoBody, [requestBody |-> b.body])),
             get_auth(b.st, rt))
      Tags(op, st1, tags) ==
        RequestBody(Merge(op, Opt(tags # <<>>, [tags |-> tags])),
                    get_request_body(st1, rt))
      Parameters(op, p) ==
        Tags(Merge(op, Opt(DOMAIN p.parameters # {}, [parameters |-> p.parameters])),
             p.st, get_tags(rt))
  IN  Parameters([operationId |-> get_operation_id(rt), description |-> ""],
                 get_parameters([reg |-> reg, mapped |-> <<>>, warnings |-> {}], rt))

\* ------------------------------------------------------------- the runs
Route(path, method, view) ==
  [path |-> path, path_regex |-> EmptyDict, method |-> method, view |-> view]

\* an APIView with serializer_class = cls
SerializerView(cls) == Merge(View, [serializer |-> Instance(cls)])

\* @extend_schema(request=..., responses=...)
ExtendSchema(view, request, responses) ==
  Merge(view, [request |-> request, responses |-> responses])

TokenAuthentication ==
  [cls |-> "TokenAuthentication",
   scheme |-> [name |-> "tokenAuth",
               requirement |-> [tokenAuth |-> <<>>],
               definition |-> [type |-> "http", scheme |-> "bearer"]]]

UnknownAuthentication == [cls |-> "UnknownAuthentication"]

PathX == <<"/", "x">>

\* the routes of the runs that exercise the component registry
RegistryRoutes ==
  {Route(PathX, m, SerializerView(c)) :
     m \in {"GET", "POST", "PATCH"}, c \in SerializerClasses \ FieldClasses}
  \cup {Route(PathX, "POST", ExtendSchema(View, Instance("X"), Instance("LibX"))),
        Route(PathX, "POST", ExtendSchema(View, Instance("LibX"), Instance("X"))),
        Route(PathX, "PUT", SerializerView("X")),
        Route(PathX, "PUT",
              Merge(View, [generic |-> TRUE, serializer |-> ManyInstance("X")])),
        Route(PathX, "PUT",
              Merge(View, [generic |-> TRUE, serializer |-> ManyInstance("RoOnly")])),
        Route(PathX, "GET",
              Merge(ExtendSchema(View, NoBody, Instance("X")),
                    [parameters |-> << OpenApiParameter("q", Instance("RoOnly"), "query"),
                                       OpenApiParameter("n", [basic |-> "INT"], "query"),
                                       Instance("Split") >>])),
        Route(PathX, "DELETE",
              Merge(View, [responses |->
                 [codes |-> (200 :> ManyInstance("X")) @@ (404 :> Instance("Split")),
                  order |-> <<200, 404>>]])),
        Route(PathX, "DELETE", SerializerView("X")),
        Route(PathX, "GET",
              Merge(SerializerView("X"),
                    [authenticators |-> <<TokenAuthentication, UnknownAuthentication>>,
                     permissions |-> {"IsAuthenticatedOrReadOnly"}]))}

NoRoute == EmptyDict

DefaultSettings ==
  [COMPONENT_SPLIT_REQUEST |-> FALSE, COMPONENT_SPLIT_PATCH |-> FALSE,
   SCHEMA_PATH_PREFIX |-> <<>>]

\* a run starts with a freshly constructed registry and no operation yet
Start ==
  /\ registry = EmptyRegistry
  /\ route = NoRoute
  /\ operation = EmptyDict
  /\ doc_refs = {}
  /\ log = [mapped |-> <<>>, warnings |-> {}]
  /\ nops = 0

Init ==
  /\ settings \in [COMPONENT_SPLIT_REQUEST : BOOLEAN,
                   COMPONENT_SPLIT_PATCH : BOOLEAN,
                   SCHEMA_PATH_PREFIX : {<<>>}]
  /\ Start

\* one call of AutoSchema.get_operation by the generator, for route rt
GetOperation(rt) ==
  /\ nops < MaxOps
  /\ LET Returned(r) ==
           /\ registry' = r.st.reg
           /\ operation' = r.operation
           /\ doc_refs' = doc_refs \cup OperationRefs(r.operation)
           /\ log' = [mapped |-> r.st.mapped, warnings |-> r.st.warnings]
     IN  Returned(get_operation(registry, rt))
  /\ route' = rt
  /\ nops' = nops + 1
  /\ UNCHANGED settings

Next == \E rt \in RegistryRoutes : GetOperation(rt)

Spec == Init /\ [][Next]_vars

\* ------------------------------------------- the runs: the list heuristic
\* @extend_schema(responses={code: body, ...})
DictResponses(codes) ==
  [codes |-> codes,
   order |-> CHOOSE seq \in [1..Cardinality(DOMAIN codes) -> DOMAIN codes] :
               \A i, j \in DOMAIN seq : i < j => seq[i] < seq[j]]

ListPaths == { <<"/", "x">>, <<"/", "x", "/", "{", "pk", "}">> }

\* handlers: APIView, GenericAPIView, ListAPIView, a ModelViewSet under each
\* of three actions, and @extend_schema response overrides
ListViews ==
  { SerializerView("X"),
    Merge(SerializerView("X"), [generic |-> TRUE]),
    Merge(SerializerView("X"), [generic |-> TRUE, list_mixin |-> TRUE]),
    Merge(View, [responses |-> ManyInstance("X")]) }
  \cup { Merge(SerializerView("X"),
               [generic |-> TRUE, list_mixin |-> TRUE, action |-> a]) :
           a \in {"list", "retrieve", "destroy"} }
  \cup { Merge(v, [responses |-> DictResponses(200 :> b)]) :
           v \in {View, Merge(View, [action |-> "list"])},
           b \in {Instance("X"), ManyInstance("X"), [basic |-> "INT"]} }

ListRoutes ==
  { Route(p, m, v) : p \in ListPaths, m \in {"GET", "DELETE"}, v \in ListViews }

InitList == settings = DefaultSettings /\ Start

NextList == \E rt \in ListRoutes : GetOperation(rt)

SpecList == InitList /\ [][NextList]_vars

\* ----------------------------------------------- the runs: operation ids
PathPrefixes == { <<>>, <<"/", "api">> }

OpIdPaths ==
  { <<"/">>,
    <<"/", "x">>,
    <<"/", "api", "/", "x", "/">>,
    <<"/", "API", "/", "x">>,
    <<"/", "api", "/", "x", "-", "y", "/", "{", "id", "}">>,
    <<"/", "x", "/", "/", "y">>,
    <<"/", "x", "/", "api", "/", "y">>,
    <<"/", "x", "/", "{", "id", "}">>,
    <<"/", "x", "-", "y">>,
    <<"/", "x_y">> }

OpIdViews ==
  { SerializerView("X"),
    Merge(SerializerView("X"), [generic |-> TRUE, list_mixin |-> TRUE]) }

OpIdRoutes ==
  { Route(p, m, v) : p \in OpIdPaths, m \in Methods, v \in OpIdViews }

InitOpId ==
  /\ settings \in {[DefaultSettings EXCEPT !.SCHEMA_PATH_PREFIX = p] : p \in PathPrefixes}
  /\ Start

NextOpId == \E rt \in OpIdRoutes : GetOperation(rt)

SpecOpId == InitOpId /\ [][NextOpId]_vars

\* --------------------------------------------- the runs: path parameters
\* view.queryset.model: an AutoField primary key, a SlugField and a
\* ForeignKey onto a model whose primary key is a UUIDField
ItemModel ==
  [ id    |-> [field |-> ReadOnly(Field("id", "IntegerField")), primary_key |-> TRUE],
    slug  |-> [internal_type |-> "CharField"],
    owner |-> [target_field |-> [field |-> Field("id", "UUIDField"),
                                 primary_key |-> TRUE]] ]

\* what resolve_regex_path_parameter(path_regex, variable) yields per variable
PathRegexes ==
  { EmptyDict,
    [id  |-> [schema |-> [type |-> "integer"], required |-> TRUE]],
    [fmt |-> [schema |-> [type |-> "string", format |-> "suffix"],
              required |-> FALSE]] }

ParamPaths ==
  { <<"/", "items">>,
    <<"/", "items", "/", "{", "id", "}">>,
    <<"/", "items", "/", "{", "slug", "}", "/", "by", "/", "{", "owner", "}">>,
    <<"/", "items", "/", "{", "name", "}", "/", "{", "name", "}">>,
    <<"/", "items", "/", "{", "id", "}", "/", "file", "{", "fmt", "}">> }

ModelView == Merge(SerializerView("X"), [generic |-> TRUE, model |-> ItemModel])

ParamViews ==
  { SerializerView("X"),
    ModelView,
    Merge(ModelView,
          [parameters |-> << OpenApiParameter("id", [basic |-> "STR"], "path") >>]),
    Merge(ModelView,
          [filter_backends |-> << [name |-> "id", in |-> "query", required |-> FALSE,
                                   schema |-> [type |-> "string"]] >>]) }

ParamRoutes ==
  { [path |-> p, path_regex |-> x, method |-> "GET", view |-> v] :
      p \in ParamPaths, x \in PathRegexes, v \in ParamViews }

InitParams == settings = DefaultSettings /\ Start

NextParams == \E rt \in ParamRoutes : GetOperation(rt)

SpecParams == InitParams /\ [][NextParams]_vars

\* --------------------------------------- the runs: merging parameters
\* a parameter as a filter backend or a paginator declares it; description
\* tells the declaring source
SourceParameter(name, location, source) ==
  [name |-> name, in |-> location, required |-> FALSE,
   schema |-> [type |-> "integer"], description |-> source]

\* a ListAPIView over ItemModel; its filter backend declares limit in query
\* and id in path, its paginator declares limit in query, and @extend_schema
\* may declare either
MergeViews ==
  { Merge(Merge(Merge(Merge(ModelView, [list_mixin |-> TRUE]),
      IF f THEN [filter_backends |-> << SourceParameter("limit", "query", "filter"),
                                        SourceParameter("id", "path", "filter") >>]
           ELSE EmptyDict),
      IF p THEN [paginator |-> << SourceParameter("limit", "query", "pagination") >>]
           ELSE EmptyDict),
      [parameters |-> o]) :
    f \in BOOLEAN, p \in BOOLEAN,
    o \in { << >>,
            << OpenApiParameter("limit", [basic |-> "STR"], "query") >>,
            << OpenApiParameter("id", [basic |-> "STR"], "path") >>,
            << OpenApiParameter("limit", [basic |-> "STR"], "query"),
               OpenApiParameter("id", [basic |-> "STR"], "path") >> } }

MergeRoutes ==
  { Route(p, m, v) :
      p \in { <<"/", "items">>, <<"/", "items", "/", "{", "id", "}">> },
      m \in {"GET", "POST"}, v \in MergeViews }

NextMerge == \E rt \in MergeRoutes : GetOperation(rt)

SpecMerge == InitParams /\ [][NextMerge]_vars

\* ------------------------------------------------- the runs: security
\* handlers by authentication_classes and permission_classes; the third
\* authenticator's extension declares a scheme without a requirement
AuthRoutes ==
  { Route(PathX, m, Merge(SerializerView("X"),
                          [authenticators |-> a, permissions |-> p])) :
      m \in Methods,
      a \in { << >>, <<TokenAuthentication>>, <<UnknownAuthentication>>,
              <<UnknownAuthentication, TokenAuthentication>>,
              <<TokenAuthentication,
                [cls |-> "BasicAuthentication",
                 scheme |-> [name |-> "basicAuth",
                             requirement |-> [basicAuth |-> <<>>],
                             definition |-> [type |-> "http", scheme |-> "basic"]]]>>,
              <<[cls |-> "SilentAuthentication",
                 scheme |-> [name |-> "silent",
                             definition |-> [type |-> "apiKey"]]]>> },
      p \in { {}, {"AllowAny"}, {"IsAuthenticated"}, {"IsAuthenticatedOrReadOnly"},
              {"AllowAny", "IsAuthenticatedOrReadOnly"} } }

NextAuth == \E rt \in AuthRoutes : GetOperation(rt)

SpecAuth == InitParams /\ [][NextAuth]_vars

\* ------------------------------------------------ the runs: responses
\* @extend_schema(responses={...}) with the codes in declaration order
DeclaredResponses(codes, order) == [codes |-> codes, order |-> order]

\* @extend_schema_serializer(many=False) on the serializer class
ManyFalse(serializer) == Merge(serializer, [many |-> FALSE])

\* a raw schema dict given in place of a serializer
RawSchema == [raw |-> [type |-> "object", title |-> "Raw"]]

\* single (non-map) response descriptors
RespSingles ==
  { Instance("X"), ManyInstance("X"), Instance("Empty"), [basic |-> "INT"],
    ManyFalse(Instance("X")) }

\* maps from status code to body
RespMaps ==
  { DeclaredResponses((200 :> Instance("X")) @@ (404 :> Instance("LibX")), <<200, 404>>),
    DeclaredResponses((200 :> Instance("X")) @@ (404 :> Instance("LibX")), <<404, 200>>),
    DeclaredResponses((201 :> ManyInstance("X")) @@ (400 :> RawSchema), <<201, 400>>),
    DeclaredResponses((200 :> Instance("Empty")) @@ (204 :> NoBody), <<200, 204>>),
    DeclaredResponses((200 :> ManyFalse(Instance("X"))), <<200>>) }

\* pagination_class: the parameters and the envelope a paginator declares
PageParameter ==
  [name |-> "page", in |-> "query", required |-> FALSE, schema |-> [type |-> "integer"]]

\* a ModelViewSet under an action, with or without pagination_class
ViewSet(action, paginated) ==
  Merge(Merge(SerializerView("X"),
              [generic |-> TRUE, list_mixin |-> TRUE, action |-> action]),
        IF paginated THEN [paginator |-> <<PageParameter>>] ELSE EmptyDict)

RespViews ==
  { SerializerView("X"), SerializerView("Empty"),
    Merge(View, [serializer_error |-> TRUE]),
    Merge(ViewSet("list", TRUE), [serializer_error |-> TRUE]) }
  \cup { ViewSet(a, p) : a \in {"list", "retrieve"}, p \in BOOLEAN }
  \cup { Merge(v, [responses |-> r]) :
           v \in {View, ViewSet("list", TRUE), ViewSet("retrieve", TRUE)},
           r \in RespSingles \cup RespMaps }

RespRoutes ==
  { Route(PathX, m, v) : m \in {"GET", "POST", "DELETE"}, v \in RespViews }

InitResp == settings = DefaultSettings /\ Start

NextResp == \E rt \in RespRoutes : GetOperation(rt)

SpecResp == InitResp /\ [][NextResp]_vars

\* ------------------------------------------- the runs: field mapping
FieldRoutes ==
  {Route(PathX, m, SerializerView(c)) :
     m \in {"GET", "POST", "PATCH"},
     c \in FieldClasses \cup {"Split", "Ovr", "Parent", "A", "B"}}

NextFields == \E rt \in FieldRoutes : GetOperation(rt)

SpecFields == Init /\ [][NextFields]_vars

\* ------------------------------------ the runs: polymorphic composition
Proxies ==
  { PolymorphicProxySerializer(<<"Meta">>, <<"X", "Split">>, "type"),
    PolymorphicProxySerializer(<<"Person", "Serializer">>, <<"A", "RoOnly", "Dec">>, "x") }

\* one call of AutoSchema.resolve_serializer on a proxy, as the mapping of a
\* response or request body makes it while self.method is method
ResolveProxy(serializer, direction, method) ==
  /\ nops < MaxOps
  /\ LET Returned(r) ==
           /\ registry' = r.st.reg
           /\ operation' = IF r.raised # None THEN [raised |-> r.raised]
                            ELSE [component |-> r.component]
           /\ log' = [mapped |-> r.st.mapped, warnings |-> r.st.warnings]
     IN  Returned(resolve_polymorphic([reg |-> registry, mapped |-> <<>>, warnings |-> {}],
                                      serializer, direction, method))
  /\ route' = [serializer |-> serializer, direction |-> direction, method |-> method]
  /\ nops' = nops + 1
  /\ UNCHANGED <<settings, doc_refs>>

NextProxy ==
  \/ \E rt \in FieldRoutes : GetOperation(rt)
  \/ \E serializer \in Proxies, direction \in {"request", "response"},
        method \in {"GET", "POST", "PATCH"} : ResolveProxy(serializer, direction, method)

SpecProxy == Init /\ [][NextProxy]_vars

\* ---------------------------------------------------------- properties
\* the schema an operation's request or response body carries
BodySchema(body) ==
  IF Has(body, "content") THEN body.content["application/json"].schema ELSE EmptyDict

ArrayWrapped(body) == Get(BodySchema(body), "type", None) = "array"

\* the registry key whose component a $ref fragment names
Referenced(schema) ==
  {k \in DOMAIN registry : Ref(registry[k].component) = schema}

\* the variables of a path template, read off its braces
TemplateVariables(path) ==
  {path[i + 1] : i \in {j \in 1..(Len(path) - 2) : path[j] = "{" /\ path[j + 2] = "}"}}

\* C1: across get_operation calls on one registry, a record that is already
\* stored is not mapped again, a record identity has one registry entry and
\* one name, and a GET on a handler whose record is already stored answers
\* with a $ref to the component stored by the first resolution.
C1_ResolveIsIdempotent ==
  [][ /\ \A k \in DOMAIN registry : k \notin Range(log'.mapped)
      /\ \A k1, k2 \in DOMAIN registry' :
           registry'[k1].identity = registry'[k2].identity => k1 = k2
      /\ \A c \in SerializerClasses : \A k \in DOMAIN registry :
           ( /\ route'.method = "GET"
             /\ route'.view = SerializerView(c)
             /\ registry[k].identity =
                  <<SCHEMA, c, get_serializer_name(Instance(c), "response", "GET")>> )
           => /\ BodySchema(operation'.responses["200"]) = Ref(registry[k].component)
              /\ registry'[k] = registry[k]
    ]_vars

\* C1 happens: the second GET of the same handler maps nothing and answers
\* with the one stored component
C1_Witness ==
  /\ nops = 2
  /\ route.method = "GET"
  /\ route.view = SerializerView("X")
  /\ log.mapped = <<>>
  /\ DOMAIN registry = {<<SCHEMA, "X">>}
  /\ BodySchema(operation.responses["200"]) = [ref |-> "#/components/schemas/X"]

\* C2: two records of different classes that derive the same name are stored
\* under two names, each component holding the schema of its own record, and
\* an operation whose request is one and whose response is the other refers
\* to each record's own component.
C2_CollidingNamesKeepBoth ==
  /\ \A k \in DOMAIN registry :
       /\ registry[k].component.name = k[2]
       /\ registry[k].component.object = registry[k].identity[2]
       /\ registry[k].identity[2] = "X"
            => registry[k].component.schema.properties.x
                 = [type |-> "string", format |-> "uuid"]
       /\ registry[k].identity[2] = "LibX"
            => registry[k].component.schema.properties.x = [type |-> "integer"]
  /\ \A a, b \in {"X", "LibX"} :
       (nops > 0 /\ route.view = ExtendSchema(View, Instance(a), Instance(b)))
       => /\ \E k \in Referenced(BodySchema(operation.requestBody)) :
               registry[k].identity[2] = a
          /\ \E k \in Referenced(BodySchema(operation.responses["200"])) :
               registry[k].identity[2] = b

\* C2 happens: both records named X are stored, the later one renamed
C2_Witness ==
  /\ ~settings.COMPONENT_SPLIT_REQUEST
  /\ nops > 0
  /\ route.view = ExtendSchema(View, Instance("LibX"), Instance("X"))
  /\ {<<SCHEMA, "X">>, <<SCHEMA, "X_2">>} \subseteq DOMAIN registry
  /\ registry[<<SCHEMA, "X">>].identity[2] = "LibX"
  /\ registry[<<SCHEMA, "X_2">>].identity[2] = "X"

\* every $ref emitted so far: in the operations and inside stored components
EmittedRefs ==
  doc_refs \cup UNION {SchemaRefs(registry[k].component.schema) : k \in DOMAIN registry}

\* C3: every $ref emitted in an operation or inside a kept component names a
\* component that the registry holds.
C3_EveryRefResolves ==
  \A r \in EmittedRefs : \E k \in DOMAIN registry : Ref(registry[k].component).ref = r

\* C4: the registry holds no schema component without composition and without
\* properties; a handler whose record maps to no property gets "no body" and
\* its record is not stored.
C4_NoEmptyComponent ==
  /\ \A k \in DOMAIN registry :
       k[1] = SCHEMA =>
         \/ Has(registry[k].component.schema, "oneOf")
         \/ Has(registry[k].component.schema, "allOf")
         \/ Has(registry[k].component.schema, "anyOf")
         \/ /\ Has(registry[k].component.schema, "properties")
            /\ DOMAIN registry[k].component.schema.properties # {}
  /\ \A k \in DOMAIN registry : registry[k].identity[2] # "Empty"
  /\ (nops > 0 /\ route.view = SerializerView("Empty"))
       => /\ operation.responses["200"] = [description |-> "No response body"]
          /\ ~Has(operation, "requestBody")
  /\ ( /\ nops > 0
       /\ settings.COMPONENT_SPLIT_REQUEST
       /\ route.view = SerializerView("RoOnly")
       /\ route.method = "POST" )
       => /\ ~Has(operation, "requestBody")
          /\ <<SCHEMA, "RoOnlyRequest">> \notin DOMAIN registry

\* C4 happens: the record without fields was mapped and discarded again
C4_Witness ==
  /\ nops = 1
  /\ route.view = SerializerView("Empty")
  /\ route.method = "POST"
  /\ Len(log.mapped) = 2
  /\ registry = EmptyRegistry

\* C5: a get_operation call never renames, changes or removes a component the
\* registry already held before the call.
C5_KeptComponentsAreFrozen ==
  [][ \A k \in DOMAIN registry :
        k \in DOMAIN registry' /\ registry'[k] = registry[k] ]_vars

\* C5 happens: a second operation added a component next to an earlier one
C5_Witness ==
  /\ nops = 2
  /\ route.view = SerializerView("A")
  /\ route.method = "PATCH"
  /\ settings.COMPONENT_SPLIT_PATCH
  /\ ~settings.COMPONENT_SPLIT_REQUEST
  /\ {<<SCHEMA, "A">>, <<SCHEMA, "B">>, <<SCHEMA, "PatchedA">>} \subseteq DOMAIN registry
  /\ <<SCHEMA, "PatchedA">> \in Range(log.mapped)
  /\ <<SCHEMA, "B">> \notin Range(log.mapped)
  /\ Has(registry[<<SCHEMA, "B">>].component.schema, "required")

\* the declared field names of a record, less the hidden ones and those
\* carrying the given flag
FieldNames(c, flag) ==
  {f.field_name : f \in {g \in Range(Serializers[c].fields) :
                           g.kind # "HiddenField" /\ ~Get(g, flag, FALSE)}}

SplitComponent(k, c, direction, names) ==
  (\E m \in {"POST", "PATCH"} :
     registry[k].identity = <<SCHEMA, c, get_serializer_name(Instance(c), direction, m)>>)
  => /\ DOMAIN Get(registry[k].component.schema, "properties", EmptyDict) = names
     /\ Get(registry[k].component.schema, "required", {}) \subseteq names

\* C6: with COMPONENT_SPLIT_REQUEST, a record's response component has exactly
\* its non-write-only properties, its request component exactly its
\* non-read-only properties, and neither requires a stripped property.
C6_SplitStripsByDirection ==
  settings.COMPONENT_SPLIT_REQUEST =>
    \A k \in DOMAIN registry : \A c \in SerializerClasses :
      /\ SplitComponent(k, c, "response", FieldNames(c, "write_only"))
      /\ SplitComponent(k, c, "request", FieldNames(c, "read_only"))

\* the handler has no @extend_schema response override
NoOverride(rt) == ~Has(rt.view, "responses")

\* C7 as stated: for a GET without response override on a handler exposing
\* list behaviour, the response is a list exactly when the path template
\* does not contain the handler's lookup variable.
C7_ListUnlessLookupInPath ==
  ( /\ nops > 0
    /\ route.method = "GET"
    /\ NoOverride(route)
    /\ (route.view.list_mixin \/ route.view.action = "list") )
  => (ArrayWrapped(operation.responses["200"])
        <=> route.view.lookup \notin TemplateVariables(route.path))

\* C7: for a GET without response override on a handler serving one record
\* class, the response is a list exactly when the handler's action is 'list'
\* or, the handler having no action, when it is a ListModelMixin; the path
\* template's lookup variable does not enter.
C7_ListByHandler ==
  (nops > 0 /\ route.method = "GET" /\ NoOverride(route))
  => (ArrayWrapped(operation.responses["200"])
        <=> IF route.view.action # None
            THEN route.view.action = "list"
            ELSE route.view.list_mixin)

\* C7 happens: a ListModelMixin handler on a path with its lookup variable
C7_Witness ==
  /\ nops > 0
  /\ route.method = "GET"
  /\ NoOverride(route)
  /\ route.view.list_mixin
  /\ route.view.action = None
  /\ route.view.lookup \in TemplateVariables(route.path)
  /\ ArrayWrapped(operation.responses["200"])

StripPrefix(prefix, path) ==
  IF /\ Len(prefix) <= Len(path)
     /\ \A i \in 1..Len(prefix) : LowerToken(path[i]) = LowerToken(prefix[i])
  THEN SubSeq(path, Len(prefix) + 1, Len(path))
  ELSE path

\* the segments of a path: <<i, j>> with a "/" (or the path's end) at i and
\* at j and none between; kept when non-empty and not a {variable}
KeptSegments(path) ==
  {b \in (0..Len(path)) \X (1..(Len(path) + 1)) :
     /\ b[1] + 1 < b[2]
     /\ b[1] = 0 \/ path[b[1]] = "/"
     /\ b[2] = Len(path) + 1 \/ path[b[2]] = "/"
     /\ \A i \in (b[1] + 1)..(b[2] - 1) : path[i] # "/"
     /\ path[b[1] + 1] # "{"}

\* the text of a segment, '-' written as '_'
SegmentText(path, b) ==
  LET T[i \in b[1]..(b[2] - 1)] ==
        IF i = b[1] THEN ""
        ELSE T[i - 1] \o (IF path[i] = "-" THEN "_" ELSE path[i])
  IN  T[b[2] - 1]

\* the kept segments in path order, each followed by '_'
SegmentsText(path) ==
  LET kept == KeptSegments(path)
      S[n \in 0..Len(path)] ==
        IF n = 0 THEN ""
        ELSE S[n - 1] \o (IF \E b \in kept : b[1] + 1 = n
                          THEN SegmentText(path, CHOOSE b \in kept : b[1] + 1 = n) \o "_"
                          ELSE "")
  IN  S[Len(path)]

ActionToken(rt) ==
  IF rt.method = "GET" /\ is_list_view(rt, NoArg) THEN "list"
  ELSE CASE rt.method = "GET"    -> "retrieve"
         [] rt.method = "POST"   -> "create"
         [] rt.method = "PUT"    -> "update"
         [] rt.method = "PATCH"  -> "partial_update"
         [] rt.method = "DELETE" -> "destroy"

\* C9: the operationId is the '_'-join of the segments the path has after
\* the configured prefix is stripped (empty and {variable} segments dropped,
\* '-' written '_'), followed by the action token.
C9_OperationIdFromPath ==
  nops > 0 =>
    operation.operationId =
      SegmentsText(StripPrefix(settings.SCHEMA_PATH_PREFIX, route.path))
        \o ActionToken(route)

\* the handler overrides the path parameter v
Overridden(rt, v) ==
  \E i \in DOMAIN rt.view.parameters :
     /\ Has(rt.view.parameters[i], "location")
     /\ rt.view.parameters[i].name = v
     /\ rt.view.parameters[i].location = "path"

\* the JSON-Schema type of each ItemModel field
ItemModelType == [id |-> "integer", slug |-> "string", owner |-> "string"]

ResponseComponents(c) ==
  {k \in DOMAIN registry :
     /\ registry[k].identity[1] = SCHEMA
     /\ registry[k].identity[2] = c
     /\ registry[k].component.object = c
     /\ DOMAIN Get(registry[k].component.schema, "properties", EmptyDict)
          = FieldNames(c, "absent")}

\* the response entry refers to the component of the declared body, or says
\* "no body" when the body is None or maps to no property
EntryIsForBody(entry, body) ==
  IF is_serializer(body)
  THEN IF FieldNames(body.cls, "absent") = {}
       THEN entry = [description |-> "No response body"]
       ELSE \E k \in ResponseComponents(body.cls) :
              SchemaRefs(BodySchema(entry)) = {Ref(registry[k].component).ref}
  ELSE IF body = NoBody THEN entry = [description |-> "No response body"]
  ELSE Has(entry, "content") /\ SchemaRefs(BodySchema(entry)) = {}

\* C11: for a response override that maps status codes to bodies, responses
\* has exactly one entry per declared code, keyed by the code's string form,
\* and the entry of a code refers to the component of that code's body.
C11_OneEntryPerDeclaredCode ==
  (nops > 0 /\ Has(route.view, "responses") /\ Has(route.view.responses, "codes"))
  => /\ DOMAIN operation.responses
          = {ToString(c) : c \in DOMAIN route.view.responses.codes}
     /\ Cardinality(DOMAIN operation.responses)
          = Cardinality(DOMAIN route.view.responses.codes)
     /\ \A c \in DOMAIN route.view.responses.codes :
          EntryIsForBody(operation.responses[ToString(c)],
                         route.view.responses.codes[c])

\* C11 happens: POST with {404: LibX, 200: X} declared in that order; both
\* records are named X, so the body of 200 is stored under the second name
C11_Witness ==
  /\ nops = 1
  /\ route.method = "POST"
  /\ Has(route.view, "responses")
  /\ Has(route.view.responses, "codes")
  /\ route.view.responses.order = <<404, 200>>
  /\ DOMAIN operation.responses = {"200", "404"}
  /\ BodySchema(operation.responses["200"]) = [ref |-> "#/components/schemas/X_2"]
  /\ BodySchema(operation.responses["404"]) = [ref |-> "#/components/schemas/X"]
  /\ registry[<<SCHEMA, "X_2">>].identity[2] = "X"

\* the operation's response descriptor is a single one, not a map of codes
SingleDescriptor(rt) ==
  ~(Has(rt.view, "responses") /\ Has(rt.view.responses, "codes"))

\* the free-form object an unresolved descriptor falls back to
FreeFormResponse ==
  [type |-> "object", additionalProperties |-> EmptyDict,
   description |-> "Unspecified response body"]

\* the one entry under '200' carries the resolved body
Entry200IsForBody(body) ==
  /\ DOMAIN operation.responses = {"200"}
  /\ IF body = NoBody
     THEN /\ EntryIsForBody(operation.responses["200"], [raw |-> FreeFormResponse])
          /\ "could not resolve responses" \in log.warnings
     ELSE EntryIsForBody(operation.responses["200"], body)

\* C12 as stated: a single response descriptor gives one entry under '200'
\* with the resolved body, and '204' without content only for a DELETE that
\* declares no response schema.
C12_Single200Or204Undeclared ==
  (nops > 0 /\ SingleDescriptor(route))
  => IF route.method = "DELETE" /\ NoOverride(route)
     THEN \/ operation.responses = ("204" :> [description |-> "No response body"])
          \/ Entry200IsForBody(get_response_serializers(route.view))
     ELSE Entry200IsForBody(get_response_serializers(route.view))

\* C12: a single response descriptor gives exactly one entry: for a DELETE
\* whose descriptor is a serializer or a basic type, declared by an override
\* or not, it is '204' without content; in every other case it is '200' with
\* the resolved body, the free-form object when nothing could be resolved.
C12_Single200Or204OnDelete ==
  (nops > 0 /\ SingleDescriptor(route))
  => IF /\ route.method = "DELETE"
        /\ \/ is_serializer(get_response_serializers(route.view))
           \/ is_basic_type(get_response_serializers(route.view))
     THEN operation.responses = ("204" :> [description |-> "No response body"])
     ELSE Entry200IsForBody(get_response_serializers(route.view))

\* C12 happens: a DELETE that declares the single response body X gets '204'
C12_Witness ==
  /\ nops > 0
  /\ route.method = "DELETE"
  /\ route.view = Merge(View, [responses |-> Instance("X")])
  /\ operation.responses = ("204" :> [description |-> "No response body"])
  /\ registry = EmptyRegistry

\* the schema a declared body has of its own, before any wrapping
OwnSchemas(body) ==
  IF is_serializer(body)
  THEN {Ref(registry[k].component) : k \in ResponseComponents(body.cls)}
  ELSE IF is_basic_type(body) THEN {build_basic_type(body.basic)}
  ELSE IF Has(body, "raw") THEN {body.raw}
  ELSE {FreeFormResponse}

\* an array of the schema, inside the paginator's envelope when the handler
\* has a paginator
ListOf(rt, schema) ==
  IF Has(rt.view, "paginator")
  THEN [type |-> "object",
        properties |-> [count |-> [type |-> "integer"],
                        results |-> [type |-> "array", items |-> schema]]]
  ELSE [type |-> "array", items |-> schema]

\* the entry carries the body's own schema, wrapped exactly when the list
\* heuristic holds for this body and many=False is not declared on it
WrappedIffListBody(rt, entry, body) ==
  Has(entry, "content") =>
    \E own \in OwnSchemas(body) :
       BodySchema(entry) =
         IF is_list_view(rt, body) /\ Get(body, "many", TRUE)
         THEN ListOf(rt, own)
         ELSE own

\* C13: each response body that is emitted is wrapped in an array, and in the
\* paginator's envelope when the handler has a paginator, exactly when the
\* list heuristic evaluated on that body holds and the body does not declare
\* many=False; otherwise the body's own schema is emitted as it is.
C13_WrappedIffListBody ==
  nops > 0 =>
    IF SingleDescriptor(route)
    THEN Has(operation.responses, "200") =>
           WrappedIffListBody(route, operation.responses["200"],
                              get_response_serializers(route.view))
    ELSE \A c \in DOMAIN route.view.responses.codes :
           WrappedIffListBody(route, operation.responses[ToString(c)],
                              route.view.responses.codes[c])

\* C13 happens: on a paginated list handler, {201: X(many=True), 400: raw}
\* under POST wraps the first body and leaves the second as it is
C13_Witness ==
  /\ nops > 0
  /\ route.method = "POST"
  /\ route.view = Merge(ViewSet("retrieve", TRUE),
                        [responses |-> DeclaredResponses(
                           (201 :> ManyInstance("X")) @@ (400 :> RawSchema),
                           <<201, 400>>)])
  /\ BodySchema(operation.responses["201"])
       = ListOf(route, [ref |-> "#/components/schemas/X"])
  /\ BodySchema(operation.responses["400"]) = RawSchema.raw

\* C13 happens: many=False keeps the body of a list handler unwrapped
C13_WitnessSuppressed ==
  /\ nops > 0
  /\ route.method = "GET"
  /\ route.view = Merge(ViewSet("list", TRUE), [responses |-> ManyFalse(Instance("X"))])
  /\ BodySchema(operation.responses["200"]) = [ref |-> "#/components/schemas/X"]

\* the sources that declare the parameter key k = <<name, location>>
FromOverride(rt, k) ==
  \E i \in DOMAIN rt.view.parameters :
     /\ Has(rt.view.parameters[i], "location")
     /\ <<rt.view.parameters[i].name, rt.view.parameters[i].location>> = k

FromPath(rt, k) == k[2] = "path" /\ k[1] \in TemplateVariables(rt.path)

FromFilter(rt, k) ==
  \E q \in Range(get_filter_parameters(rt)) : <<q.name, q.in>> = k

FromPagination(rt, k) ==
  \E q \in Range(get_pagination_parameters(rt)) : <<q.name, q.in>> = k

\* the source whose declaration an emitted parameter is
SourceOf(parameter) ==
  IF ~Has(parameter, "description") THEN "override"
  ELSE IF parameter.description \in {"filter", "pagination"} THEN parameter.description
  ELSE "path"

\* the parameters of the last operation, by key
Parameters == Get(operation, "parameters", EmptyDict)

\* every declared key is emitted, once, and no other
OneParameterPerDeclaredKey ==
  /\ \A k \in DOMAIN Parameters : <<Parameters[k].name, Parameters[k].in>> = k
  /\ \A k \in {"limit", "id"} \X {"query", "path"} :
       k \in DOMAIN Parameters
         <=> \/ FromOverride(route, k) \/ FromPath(route, k)
             \/ FromFilter(route, k) \/ FromPagination(route, k)

\* C14 as stated: one parameter per key, kept by the precedence explicit
\* override > path-template variable > filter backend > pagination.
C14_OverridePathFilterPagination ==
  nops > 0 =>
    /\ OneParameterPerDeclaredKey
    /\ \A k \in DOMAIN Parameters :
         SourceOf(Parameters[k]) =
           IF FromOverride(route, k) THEN "override"
           ELSE IF FromPath(route, k) THEN "path"
           ELSE IF FromFilter(route, k) THEN "filter"
           ELSE "pagination"

\* C14: one parameter per key, kept by the precedence explicit override >
\* pagination > filter backend > path-template variable.
C14_OverridePaginationFilterPath ==
  nops > 0 =>
    /\ OneParameterPerDeclaredKey
    /\ \A k \in DOMAIN Parameters :
         SourceOf(Parameters[k]) =
           IF FromOverride(route, k) THEN "override"
           ELSE IF FromPagination(route, k) THEN "pagination"
           ELSE IF FromFilter(route, k) THEN "filter"
           ELSE "path"

\* C14 happens: GET /items/{id} on the list handler whose filter backend and
\* paginator both declare limit in query, the filter backend id in path too
C14_Witness ==
  /\ nops > 0
  /\ route.method = "GET"
  /\ route.path = <<"/", "items", "/", "{", "id", "}">>
  /\ route.view.parameters = << >>
  /\ Has(route.view, "filter_backends")
  /\ Has(route.view, "paginator")
  /\ DOMAIN Parameters = {<<"limit", "query">>, <<"id", "path">>}
  /\ Parameters[<<"limit", "query">>].description = "pagination"
  /\ Parameters[<<"id", "path">>].description = "filter"

\* the registry keys of the component resolved for the request record of rt
RequestComponents(rt) ==
  {k \in DOMAIN registry :
     registry[k].identity =
       <<SCHEMA, get_request_serializer(rt.view).cls,
         get_serializer_name(Child(get_request_serializer(rt.view)),
                             "request", rt.method)>>}

\* the resolved request record has a property that is required and not
\* read-only
HasRequiredWritable(rt) ==
  \E k \in RequestComponents(rt) :
    \E q \in Get(registry[k].component.schema, "required", {}) :
       ~Get(registry[k].component.schema.properties[q], "readOnly", FALSE)

\* the operation has a request body that is marked required
BodyMarkedRequired ==
  Has(operation, "requestBody") /\ Get(operation.requestBody, "required", FALSE)

\* the last operation took a request record, single or multi-valued
TakesRecord ==
  /\ nops > 0
  /\ route.method \in {"PUT", "PATCH", "POST"}
  /\ is_serializer(get_request_serializer(route.view))

\* C15 as stated: the request body is marked required exactly when the
\* resolved request record has a required property that is not read-only,
\* for a single and for a multi-valued record alike.
C15_RequiredIffRequiredWritable ==
  TakesRecord => (BodyMarkedRequired <=> HasRequiredWritable(route))

\* C15: for a single request record the body is marked required exactly when
\* the resolved record has a required property that is not read-only; for a
\* multi-valued record the body is always marked required.
C15_RequiredIffWritableOrMany ==
  TakesRecord =>
    IF IsListSerializer(get_request_serializer(route.view))
    THEN BodyMarkedRequired
    ELSE BodyMarkedRequired <=> HasRequiredWritable(route)

\* C15 happens: PUT of a list of the record whose only property is read-only
\* is marked required, and so is POST of a record with a required property
C15_Witness ==
  /\ nops = 2
  /\ ~settings.COMPONENT_SPLIT_REQUEST
  /\ route.method = "PUT"
  /\ IsListSerializer(get_request_serializer(route.view))
  /\ get_request_serializer(route.view).cls = "RoOnly"
  /\ operation.requestBody.required = TRUE
  /\ registry[<<SCHEMA, "RoOnly">>].component.schema.required = {"id"}
  /\ registry[<<SCHEMA, "RoOnly">>].component.schema.properties.id.readOnly = TRUE
  /\ <<SCHEMA, "Split">> \in DOMAIN registry

\* C16: no requestBody for a method other than PUT, PATCH and POST; and for
\* those, no requestBody when the request record, single or multi-valued,
\* resolved to a component that was discarded as property-less.
C16_NoBodyWithoutComponent ==
  /\ (nops > 0 /\ route.method \notin {"PUT", "PATCH", "POST"})
       => ~Has(operation, "requestBody")
  /\ (TakesRecord /\ RequestComponents(route) = {})
       => ~Has(operation, "requestBody")

\* the requirements of the authenticators that have a scheme extension, in
\* the order of the authenticators
SchemeRequirements(authenticators) ==
  LET Known == SelectSeq(authenticators,
                 LAMBDA a : Has(a, "scheme") /\ Has(a.scheme, "requirement"))
  IN  [i \in DOMAIN Known |-> Known[i].scheme.requirement]

\* a fully open permission, or a read/write-gated one on a method that is
\* not PUT, PATCH or POST
OpenAccess(rt) ==
  \/ "AllowAny" \in rt.view.permissions
  \/ /\ "IsAuthenticatedOrReadOnly" \in rt.view.permissions
     /\ rt.method \notin {"PUT", "PATCH", "POST"}

Stripped(name) ==
  Concat(IF name # <<>> /\ name[Len(name)] = "Serializer"
         THEN SubSeq(name, 1, Len(name) - 1) ELSE name)

\* the base name as stated: the reference name first, then the extension's
BaseNameRefFirst(c) ==
  IF Has(Serializers[c], "ref_name") THEN Concat(Serializers[c].ref_name)
  ELSE IF Has(Serializers[c], "ext_name") THEN Concat(Serializers[c].ext_name)
  ELSE Stripped(Serializers[c].name)

\* the base name with the extension's name first, then the reference name;
\* a trailing 'Serializer' is removed whichever the source
BaseNameExtFirst(c) ==
  IF Has(Serializers[c], "ext_name") THEN Stripped(Serializers[c].ext_name)
  ELSE IF Has(Serializers[c], "ref_name") THEN Stripped(Serializers[c].ref_name)
  ELSE Stripped(Serializers[c].name)

\* a GET on a handler of record c answers with a component resolved under
\* the given name
AnsweredUnder(c, name) ==
  (nops > 0 /\ route.method = "GET" /\ route.view = SerializerView(c)
     /\ Has(operation.responses["200"], "content"))
  => \E k \in Referenced(BodySchema(operation.responses["200"])) :
        registry[k].identity = <<SCHEMA, c, name>>

\* C18 as stated: the base name is Meta.ref_name if declared, else the name a
\* matching extension declares, else the class name less 'Serializer'.
C18_RefNameThenExtension ==
  \A c \in SerializerClasses :
    /\ get_serializer_name(Instance(c), "response", "GET") = BaseNameRefFirst(c)
    /\ AnsweredUnder(c, BaseNameRefFirst(c))

\* C18: the base name is the name a matching extension declares, else
\* Meta.ref_name if declared, else the class name; a trailing 'Serializer'
\* is removed from it.
C18_ExtensionThenRefName ==
  \A c \in SerializerClasses :
    /\ get_serializer_name(Instance(c), "response", "GET") = BaseNameExtFirst(c)
    /\ AnsweredUnder(c, BaseNameExtFirst(c))

\* C18 happens: the record with both a reference name and an extension name
\* is stored under the extension's, after the record with a reference name
\* alone was stored under that
C18_Witness ==
  /\ nops = 2
  /\ route.method = "GET"
  /\ route.view = SerializerView("Both")
  /\ BodySchema(operation.responses["200"]) = [ref |-> "#/components/schemas/Ext"]
  /\ {<<SCHEMA, "Ext">>, <<SCHEMA, "Y">>} \subseteq DOMAIN registry
  /\ registry[<<SCHEMA, "Ext">>].identity = <<SCHEMA, "Both", "Ext">>
  /\ registry[<<SCHEMA, "Y">>].identity = <<SCHEMA, "Owned", "Y">>

\* the component name of record c by the stated rules
VariantName(c, direction, method, read_only) ==
  (IF /\ method = "PATCH" /\ direction = "request"
      /\ settings.COMPONENT_SPLIT_PATCH /\ ~read_only
   THEN "Patched" ELSE "")
  \o BaseNameExtFirst(c)
  \o (IF direction = "request" /\ settings.COMPONENT_SPLIT_REQUEST
      THEN "Request" ELSE "")

\* the body refers to a component resolved for record c under the name
ResolvedUnder(body, c, name) ==
  Has(body, "content") =>
    \E k \in Referenced(BodySchema(body)) : registry[k].identity = <<SCHEMA, c, name>>

\* C19: a component name has the suffix 'Request' exactly when the direction
\* is request and COMPONENT_SPLIT_REQUEST is on, and the prefix 'Patched'
\* exactly when the operation is a PATCH, the direction is request,
\* COMPONENT_SPLIT_PATCH is on and the record is not read-only.
C19_RequestSuffixPatchedPrefix ==
  /\ \A c \in SerializerClasses : \A d \in {"request", "response"} :
       \A m \in Methods : \A ro \in BOOLEAN :
         get_serializer_name(IF ro THEN ReadOnly(Instance(c)) ELSE Instance(c), d, m)
           = VariantName(c, d, m, ro)
  /\ \A c \in SerializerClasses :
       (nops > 0 /\ route.view = SerializerView(c))
       => /\ Has(operation, "requestBody")
               => ResolvedUnder(operation.requestBody, c,
                                VariantName(c, "request", route.method, FALSE))
          /\ Has(operation.responses, "200")
               => ResolvedUnder(operation.responses["200"], c,
                                VariantName(c, "response", route.method, FALSE))

\* C19 happens: with both splits on, PATCH takes PatchedSplitRequest and
\* answers with Split
C19_Witness ==
  /\ nops = 1
  /\ settings.COMPONENT_SPLIT_REQUEST
  /\ settings.COMPONENT_SPLIT_PATCH
  /\ route.method = "PATCH"
  /\ route.view = SerializerView("Split")
  /\ BodySchema(operation.requestBody)
       = [ref |-> "#/components/schemas/PatchedSplitRequest"]
  /\ BodySchema(operation.responses["200"]) = [ref |-> "#/components/schemas/Split"]
  /\ DOMAIN registry = {<<SCHEMA, "PatchedSplitRequest">>, <<SCHEMA, "Split">>}

\* the 32-bit limits as Python ints: 2147483647 and -2147483648
Max32 == BigInt(32767, 65535)

Min32 == BigInt(-32768, 0)

\* the integer field lies outside the signed 32-bit range by a bound
OutsideInt32(f) ==
  \/ Has(f, "max_value") /\ GreaterThan(f.max_value, Max32)
  \/ Has(f, "min_value") /\ GreaterThan(Min32, f.min_value)

\* C20: the fragment of an integer field has format int64 whenever its
\* maximum is greater than 2147483647 or its minimum is less than
\* -2147483648.
C20_Int64OutsideInt32 ==
  \A k \in DOMAIN registry : \A c \in SerializerClasses :
    registry[k].identity[2] = c =>
      \A f \in Range(Serializers[c].fields) :
        ( /\ f.kind = "IntegerField"
          /\ OutsideInt32(f)
          /\ Has(registry[k].component.schema.properties, f.field_name) )
        => Get(registry[k].component.schema.properties[f.field_name], "format", None)
             = "int64"

\* the decimal validators among field.validators
DecimalValidators(field) ==
  {v \in {Get(field, "validators", <<>>)[i] : i \in DOMAIN Get(field, "validators", <<>>)} :
     v.kind = "DecimalValidator"}

\* the decimal places a field declares, itself or by a decimal validator
DeclaredPlaces(field) ==
  (IF Has(field, "decimal_places") THEN {field.decimal_places} ELSE {})
  \cup {v.decimal_places : v \in DecimalValidators(field)}

\* the whole digits a field declares, itself or by a decimal validator
DeclaredWholeDigits(field) ==
  (IF Has(field, "max_digits") /\ Has(field, "decimal_places")
   THEN {field.max_digits - field.decimal_places} ELSE {})
  \cup {v.max_digits - v.decimal_places : v \in DecimalValidators(field)}

\* the declared fields of the record a component was mapped from
FieldsOf(k) ==
  {Serializers[registry[k].component.object].fields[i] :
     i \in DOMAIN Serializers[registry[k].component.object].fields}

\* the fragment a component's schema holds for a field
Fragment(k, field) == registry[k].component.schema.properties[field.field_name]

HasFragment(k, field) ==
  /\ Has(registry[k].component.schema, "properties")
  /\ Has(registry[k].component.schema.properties, field.field_name)

RECURSIVE Pow10(_)
Pow10(n) == IF n = 0 THEN 1 ELSE 10 * Pow10(n - 1)

\* C21: every field that declares p decimal places, p = 0 included, has
\* multipleOf = 10^-p in its fragment
C21_MultipleOfIsTenToMinusPlaces ==
  \A k \in DOMAIN registry : \A field \in FieldsOf(k) :
    HasFragment(k, field) =>
      \A p \in DeclaredPlaces(field) :
        /\ Has(Fragment(k, field), "multipleOf")
        /\ Fragment(k, field).multipleOf = [mantissa |-> 1, exponent |-> 0 - p]

Fields(c) == {Serializers[c].fields[i] : i \in DOMAIN Serializers[c].fields}

\* the state a resolution starts from, on the registry as it stands
Resolving == [reg |-> registry, mapped |-> <<>>, warnings |-> {}]

PatchSuppressed(direction, method) ==
  settings.COMPONENT_SPLIT_PATCH /\ method = "PATCH" /\ direction = "request"

\* in the object schema of a record: a hidden field has no property and no
\* requirement; any other field is required iff it is declared required or
\* its fragment is readOnly
RequiredIffDeclaredOrReadOnly(c, schema) ==
  \A field \in Fields(c) :
    IF field.kind = "HiddenField"
    THEN /\ ~Has(Get(schema, "properties", EmptyDict), field.field_name)
         /\ field.field_name \notin Get(schema, "required", {})
    ELSE /\ Has(Get(schema, "properties", EmptyDict), field.field_name)
         /\ field.field_name \in Get(schema, "required", {})
              <=> \/ Get(field, "required", FALSE)
                  \/ Get(schema.properties[field.field_name], "readOnly", FALSE)

\* C23: outside the patch-suppressed variant, the object schema that
\* _map_basic_serializer builds lists a non-hidden field as required iff the
\* field is required or its fragment is readOnly, and leaves hidden fields out
\* of properties and required
C23_RequiredIffDeclaredOrReadOnly ==
  \A c \in SerializerClasses : \A direction \in {"request", "response"} :
    \A method \in {"GET", "POST", "PATCH"} :
      ~PatchSuppressed(direction, method) =>
        RequiredIffDeclaredOrReadOnly(c,
          map_basic_serializer(Resolving, Instance(c), direction, method).schema)

\* the record with a read-only, a required, a write-only, an optional and a
\* hidden field has been mapped, unsplit and unsuppressed
C23_Witness ==
  /\ ~settings.COMPONENT_SPLIT_REQUEST
  /\ \E k \in DOMAIN registry :
       /\ registry[k].component.object = "Split"
       /\ registry[k].component.schema.required = {"ro", "rw", "wo"}
       /\ DOMAIN registry[k].component.schema.properties = {"ro", "rw", "wo", "opt"}

\* the requirements the fields of record c give a schema that holds the
\* properties it holds
DeclaredRequirements(c, schema) ==
  {field.field_name : field \in
     {g \in Fields(c) :
        /\ Has(Get(schema, "properties", EmptyDict), g.field_name)
        /\ \/ Get(g, "required", FALSE)
           \/ Get(schema.properties[g.field_name], "readOnly", FALSE)}}

\* the components a resolution has built: those it added to the registry
BuiltBy(r) == {r.st.reg[k].component : k \in (DOMAIN r.st.reg) \ (DOMAIN registry)}

\* C24: every record schema built while resolving the request of a PATCH
\* under COMPONENT_SPLIT_PATCH, the top-level record and every record nested
\* in it, has no required list; a schema built under any other method, for a
\* response, or with the option off keeps the requirements of its fields
C24_PatchRequestHasNoRequired ==
  \A c \in SerializerClasses : \A direction \in {"request", "response"} :
    \A method \in {"GET", "POST", "PATCH"} :
      LET Built(components) ==
            \A component \in components :
              IF PatchSuppressed(direction, method)
              THEN ~Has(component.schema, "required")
              ELSE Get(component.schema, "required", {})
                     = DeclaredRequirements(component.object, component.schema)
      IN  Built(BuiltBy(resolve_serializer(Resolving, Instance(c), direction, method)))

\* a PATCH under COMPONENT_SPLIT_PATCH has built the patched variants of a
\* record and of the record nested in it, both without requirements
C24_Witness ==
  /\ settings.COMPONENT_SPLIT_PATCH
  /\ nops > 0
  /\ route.method = "PATCH"
  /\ \E top, nested \in DOMAIN registry :
       /\ registry[top].component.object = "B"
       /\ registry[nested].component.object = "A"
       /\ registry[top].component.name = (IF settings.COMPONENT_SPLIT_REQUEST
                                          THEN "PatchedBRequest" ELSE "PatchedB")
       /\ registry[nested].component.name = (IF settings.COMPONENT_SPLIT_REQUEST
                                             THEN "PatchedARequest" ELSE "PatchedA")
       /\ ~Has(registry[top].component.schema, "required")
       /\ ~Has(registry[nested].component.schema, "required")
       /\ Has(registry[top].component.schema.properties, "a")

\* C25: whichever branch of _map_serializer_field maps a field, an
\* overridden field included, its fragment carries the readOnly, writeOnly,
\* nullable, default and description that the field's metadata gives
C25_FragmentCarriesFieldMeta ==
  \A k \in DOMAIN registry : \A field \in FieldsOf(k) :
    HasFragment(k, field) =>
      \A key \in DOMAIN get_serializer_field_meta(field) :
        /\ Has(Fragment(k, field), key)
        /\ Fragment(k, field)[key] = get_serializer_field_meta(field)[key]

\* the last step resolved a polymorphic proxy
ProxyResolved == nops > 0 /\ Has(route, "direction")

\* the components the registry holds for record class c
ComponentsOf(c) == {registry[k].component : k \in {q \in DOMAIN registry : registry[q].component.object = c}}

\* C26: mapping a polymorphic proxy completes without aborting, registers
\* every sub-record, and yields a oneOf with one $ref per sub-record in
\* declaration order and a discriminator mapping onto those $refs
C26_ProxyMapsToOneOf ==
  ProxyResolved =>
    /\ ~Has(operation, "raised")
    /\ \A i \in DOMAIN route.serializer.serializers :
         ComponentsOf(route.serializer.serializers[i]) # {}
    /\ Has(operation.component.schema, "oneOf")
    /\ DOMAIN operation.component.schema.oneOf = DOMAIN route.serializer.serializers
    /\ \A i \in DOMAIN route.serializer.serializers :
         \E component \in ComponentsOf(route.serializer.serializers[i]) :
           operation.component.schema.oneOf[i] = Ref(component)
    /\ {operation.component.schema.discriminator.mapping[t] :
          t \in DOMAIN operation.component.schema.discriminator.mapping}
         = {operation.component.schema.oneOf[i].ref :
              i \in DOMAIN operation.component.schema.oneOf}

\* the last step built the operation of a handler whose serializer cannot
\* be obtained and that declares no response override
SerializerFailed ==
  /\ nops > 0
  /\ Has(route, "view")
  /\ route.view.serializer_error
  /\ ~Has(route.view, "responses")

\* the free-form object of the fallback
FreeFormObject(schema) ==
  /\ Get(schema, "type", None) = "object"
  /\ Has(schema, "additionalProperties")
  /\ ~Has(schema, "properties")

\* the operation reports the failure and answers '200' with a body that
\* Shape accepts
FailureAnswered(Shape(_)) ==
  /\ "error: could not obtain serializer" \in log.warnings
  /\ Has(operation, "operationId")
  /\ DOMAIN operation.responses = {"200"}
  /\ Has(operation.responses["200"], "content")
  /\ Shape(BodySchema(operation.responses["200"]))

\* C27 as stated: when the serializer cannot be obtained, the error is
\* reported, the operation is still produced with a '200' response whose
\* body is a free-form object, and every component the registry kept stays
C27_FailureAnsweredFreeForm ==
  [][SerializerFailed' =>
       /\ FailureAnswered(FreeFormObject)'
       /\ \A k \in DOMAIN registry : k \in DOMAIN registry' /\ registry'[k] = registry[k]]_vars

\* a free-form object, or on a list route the array of it inside the
\* pagination envelope
FreeFormOrListOfIt(schema) ==
  IF is_list_view(route, [raw |-> build_basic_type("OBJECT")])
  THEN \E items \in {schema} \cup
                    {schema.properties[q] : q \in DOMAIN Get(schema, "properties", EmptyDict)} :
         /\ Get(items, "type", None) = "array"
         /\ FreeFormObject(items.items)
  ELSE FreeFormObject(schema)

\* C27: when the serializer cannot be obtained, the error is reported, the
\* operation is still produced with a '200' response whose body is a
\* free-form object, array-wrapped and paginated on a list route, and every
\* component the registry kept stays
C27_FailureAnsweredFreeFormOrList ==
  [][SerializerFailed' =>
       /\ FailureAnswered(FreeFormOrListOfIt)'
       /\ \A k \in DOMAIN registry : k \in DOMAIN registry' /\ registry'[k] = registry[k]]_vars

\* after an operation that registered a component, the operation of a
\* handler whose serializer fails has been produced
C27_Witness ==
  /\ SerializerFailed
  /\ nops = 2
  /\ registry # EmptyRegistry
  /\ FreeFormObject(BodySchema(operation.responses["200"]))

\* how often a resolution has mapped the component under key
TimesMapped(mapped, key) == Cardinality({i \in DOMAIN mapped : mapped[i] = key})

\* the fields of record c that nest a record
NestingFields(c) ==
  {f \in Fields(c) : f.kind \in {"Serializer", "ListSerializer"} /\ ~Has(f, "override")}

\* in every component built, a nesting field is a $ref and never an inlined
\* object, also where the nested record is the one being mapped
NestedByReference(components) ==
  \A component \in components : \A f \in NestingFields(component.object) :
    Has(Get(component.schema, "properties", EmptyDict), f.field_name) =>
      /\ SchemaRefs(component.schema.properties[f.field_name]) # {}
      /\ ~Has(component.schema.properties[f.field_name], "properties")

\* C28 as stated: resolution terminates on cyclic record graphs, a nested
\* occurrence of a record being mapped is a $ref, and no name is mapped more
\* than once in one top-level resolution
C28_EveryNameMappedOnce ==
  \A c \in SerializerClasses : \A direction \in {"request", "response"} :
    \A method \in {"GET", "POST", "PATCH"} :
      LET Once(r) ==
            /\ NestedByReference(BuiltBy(r))
            /\ \A key \in {r.st.mapped[i] : i \in DOMAIN r.st.mapped} :
                 TimesMapped(r.st.mapped, key) = 1
      IN  Once(resolve_serializer(Resolving, Instance(c), direction, method))

\* C28: resolution terminates on cyclic record graphs, a nested occurrence
\* of a record being mapped is a $ref, and a name the registry keeps is
\* mapped once in one top-level resolution and not again once the registry
\* holds it; only a record whose component is discarded is mapped anew at
\* each of its occurrences
C28_KeptNameMappedOnce ==
  \A c \in SerializerClasses : \A direction \in {"request", "response"} :
    \A method \in {"GET", "POST", "PATCH"} :
      LET Once(r) ==
            /\ NestedByReference(BuiltBy(r))
            /\ \A key \in DOMAIN r.st.reg :
                 TimesMapped(r.st.mapped, key) = (IF key \in DOMAIN registry THEN 0 ELSE 1)
            /\ \A key \in {r.st.mapped[i] : i \in DOMAIN r.st.mapped} :
                 TimesMapped(r.st.mapped, key) > 1 => key \notin DOMAIN r.st.reg
      IN  Once(resolve_serializer(Resolving, Instance(c), direction, method))

\* the mutually recursive records A and B are in the registry, each a $ref
\* in the other, and the last operation mapped a discarded record twice
C28_Witness ==
  /\ nops = 2
  /\ {<<SCHEMA, "A">>, <<SCHEMA, "B">>} \subseteq DOMAIN registry
  /\ SchemaRefs(registry[<<SCHEMA, "A">>].component.schema.properties.b)
       = {"#/components/schemas/B"}
  /\ SchemaRefs(registry[<<SCHEMA, "B">>].component.schema.properties.a)
       = {"#/components/schemas/A"}
  /\ TimesMapped(log.mapped, <<SCHEMA, "Empty">>) = 2
  /\ <<SCHEMA, "Empty">> \notin DOMAIN registry

\* the ways a record class can first be resolved: as a body or as a nested
\* field, read-only or not, in either direction, under each method
FirstResolutions(c) ==
  {[serializer |-> s, direction |-> d, method |-> m] :
     s \in {Instance(c), ReadOnly(Instance(c))},
     d \in {"request", "response"}, m \in {"GET", "POST", "PATCH"}}

\* the body a first resolution fixes for the name it computes
FirstBody(first) ==
  resolve_serializer([reg |-> EmptyRegistry, mapped |-> <<>>, warnings |-> {}],
                     first.serializer, first.direction, first.method).component.schema

\* C29: the body stored under a component name does not depend on the order
\* of the operations: it is the body that every first resolution computing
\* that name would have fixed
C29_BodyIndependentOfOrder ==
  \A k \in DOMAIN registry :
    \A first \in FirstResolutions(registry[k].component.object) :
      get_serializer_name(first.serializer, first.direction, first.method)
          = registry[k].identity[3]
        => FirstBody(first) = registry[k].component.schema

\* C30: two operations that differ in path or method never get the same
\* operationId, whether the paths differ in a {variable} segment, in '-'
\* against '_', or in the stripped prefix
C30_DistinctOperationIds ==
  [][(nops > 0 /\ (route'.path # route.path \/ route'.method # route.method))
       => operation'.operationId # operation.operationId]_vars

====
